---- MODULE Spec2Model ----
(***************************************************************************)
(* The shared WebSocket connection of StockAlertService                    *)
(* (src/src/app/components/subscription/subscription.ts) and the calls the *)
(* StockAlerts component makes on it.                                      *)
(*                                                                         *)
(* The service keeps its connection state in static fields.  Every handler *)
(* of the service is an operator from a service-state record to a          *)
(* service-state record, so that the sequential composition the code       *)
(* performs inside one event (closeObserver, then the subscriber's error   *)
(* or complete handler, ...) is function composition.  An action of the    *)
(* model is one JavaScript task: an API call by a consumer, one transport  *)
(* event, or one timer callback.                                           *)
(*                                                                         *)
(* Library behaviour the handlers rest on (rxjs/webSocket, browser         *)
(* WebSocket) is modelled where the source calls it:                       *)
(*   - Subject.closed is set only by Subject.unsubscribe(); the source     *)
(*     never calls unsubscribe() on socket$ itself, only on the            *)
(*     Subscription returned by socket$.subscribe().                       *)
(*   - Unsubscribing the last subscriber closes a connecting or open       *)
(*     transport and resets the subject.                                   *)
(*   - closeObserver is part of the subject's configuration: it is called  *)
(*     on the transport's close event whether or not a subscriber is left. *)
(*   - openObserver is called on the open event only while the subject     *)
(*     still holds the transport.                                          *)
(***************************************************************************)
EXTENDS Integers, FiniteSets, Sequences, TLC

\* Number of WebSocketSubject objects that can be alive (not yet fully
\* closed) at the same time.
MaxSockets == 2
\* Number of consumers (component instances) that call connect()/disconnect().
MaxConsumers == 2
\* Ghost counter of consecutive transport failures is counted up to this.
MaxFailures == 6

\* Data (alert / ticker) frames received in the frame-shape specification.
MaxArrivals == 3
\* Frames received beyond a replay buffer's capacity in the replay
\* specification.
MaxExtra == 2
\* Frames received after the subscriber attached in the replay specification.
MaxLive == 2
\* Largest page number, page size and response array length of a REST fetch.
MaxPage == 1
MaxSize == 2
MaxLen == 2
\* gmail addresses the simulated Google login can draw
MaxUsers == 2
\* requests the component subscribes to
MaxLoads == 4
\* alerts the stream hands to the component while it loads pages
MaxStreamed == 1

Sockets == 1..MaxSockets
Consumers == 1..MaxConsumers

\* StockAlertService.maxReconnectAttempts
maxReconnectAttempts == 5
\* The cap of the reconnect delay, in milliseconds.
MaxDelayMs == 30000
\* new ReplaySubject<StockAlert>(50)
alertReplaySize == 50
\* new ReplaySubject<TickerData>(10)
tickerReplaySize == 10
\* retry(2) of getFreeAlerts and of getPaidAlerts
\* StockAlerts.pageSize, stock-alerts.ts line 60
pageSize == 20
\* the slice(0, 100) of processNewAlert(), stock-alerts.ts line 1027
realTimeLimit == 100
freeRetryCount == 2
paidRetryCount == 2

VARIABLES
    socket,               \* StockAlertService.socket$: 0 is null, else a subject
    socketSubscription,   \* StockAlertService.socketSubscription: 0 is null
    conn,                 \* per subject: transport state and rxjs bookkeeping
    reconnectAttempts,    \* StockAlertService.reconnectAttempts
    isConnected,          \* StockAlertService.isConnected
    connectionInProgress, \* StockAlertService.connectionInProgress
    reconnectTimeout,     \* StockAlertService.reconnectTimeout: 0 is null, else the delay
    reconnectArmed,       \* the timer behind reconnectTimeout has not fired yet
    activeSubscriptions,  \* StockAlertService.activeSubscriptions
    pingInterval,         \* this.pingInterval is set (the interval runs)
    pingTimeout,          \* this.pingTimeout: "null", "armed" or "fired"
    anonTimers,           \* attempts whose attemptReconnect timer is pending
    lastPongTime,         \* this.lastPongTime: "zero", "setup", "now" or "frame"
    alertBuf,             \* replay buffer of StockAlertService.messageSubject
    tickerBuf,            \* replay buffer of StockAlertService.tickerSubject
    alertStream,          \* messageSubject: "active", "errored" or "completed"
    tickerStream,         \* tickerSubject: "active", "errored" or "completed"
    subscribed,           \* a component has subscribed to messages$ and tickerData$
    rcvAlerts,            \* what that subscriber's messages$ handler received
    rcvTickers,           \* what that subscriber's tickerData$ handler received
    sent,                 \* frames handed to socket$.next() by the last task
    published,            \* values handed to the two subjects by the last task
    calls,                \* functions of interest the last task went through
    answered,             \* a pong was handled while the timeout of the last
                          \* ping sent was pending
    seenAt,               \* alertsIn and tickersIn when the subscriber attached
    alertsIn,             \* alert frames received so far
    tickersIn,            \* ticker frames received so far
    fetch,                \* the REST fetch a component has subscribed to
    norm,                 \* an alert payload and what the normalizer made of it
    auth,                 \* AuthService: current user, stored user, mock users
    router,               \* the Router: the URL it is at and the last guard run
    comp,                 \* the StockAlerts component
    attached,             \* consumers that called connect() and not yet disconnect()
    failures,             \* consecutive failures of the current transport
    last                  \* the task that ran last

vars == <<socket, socketSubscription, conn, reconnectAttempts, isConnected,
          connectionInProgress, reconnectTimeout, reconnectArmed,
          activeSubscriptions, pingInterval, pingTimeout, anonTimers,
          lastPongTime, alertBuf, tickerBuf, alertStream, tickerStream,
          subscribed, rcvAlerts, rcvTickers, sent, published, calls,
          answered, seenAt, alertsIn, tickersIn, fetch, norm, auth, router,
          comp, attached, failures, last>>

\* the variables of the streaming connection
streamVars ==
    <<socket, socketSubscription, conn, reconnectAttempts, isConnected,
      connectionInProgress, reconnectTimeout, reconnectArmed,
      activeSubscriptions, pingInterval, pingTimeout, anonTimers,
      lastPongTime, alertBuf, tickerBuf, alertStream, tickerStream,
      subscribed, rcvAlerts, rcvTickers, sent, published, calls,
      answered, seenAt, alertsIn, tickersIn, attached, failures, last>>

\* The service state as one record; full is set by connect() when the model
\* has no subject left to allocate (the step is then not taken).  out, pub
\* and calls collect what one task sends, publishes and calls.
Cur ==
    [socket |-> socket, socketSubscription |-> socketSubscription,
     conn |-> conn, reconnectAttempts |-> reconnectAttempts,
     isConnected |-> isConnected,
     connectionInProgress |-> connectionInProgress,
     reconnectTimeout |-> reconnectTimeout, reconnectArmed |-> reconnectArmed,
     activeSubscriptions |-> activeSubscriptions,
     pingInterval |-> pingInterval, pingTimeout |-> pingTimeout,
     anonTimers |-> anonTimers, lastPongTime |-> lastPongTime,
     alertBuf |-> alertBuf, tickerBuf |-> tickerBuf,
     alertStream |-> alertStream, tickerStream |-> tickerStream,
     subscribed |-> subscribed, rcvAlerts |-> rcvAlerts,
     rcvTickers |-> rcvTickers,
     out |-> <<>>, pub |-> <<>>, calls |-> {}, full |-> FALSE]

InstallStream(s) ==
    /\ ~s.full
    /\ socket' = s.socket
    /\ socketSubscription' = s.socketSubscription
    /\ conn' = s.conn
    /\ reconnectAttempts' = s.reconnectAttempts
    /\ isConnected' = s.isConnected
    /\ connectionInProgress' = s.connectionInProgress
    /\ reconnectTimeout' = s.reconnectTimeout
    /\ reconnectArmed' = s.reconnectArmed
    /\ activeSubscriptions' = s.activeSubscriptions
    /\ pingInterval' = s.pingInterval
    /\ pingTimeout' = s.pingTimeout
    /\ anonTimers' = s.anonTimers
    /\ lastPongTime' = s.lastPongTime
    /\ alertBuf' = s.alertBuf
    /\ tickerBuf' = s.tickerBuf
    /\ alertStream' = s.alertStream
    /\ tickerStream' = s.tickerStream
    /\ subscribed' = s.subscribed
    /\ rcvAlerts' = s.rcvAlerts
    /\ rcvTickers' = s.rcvTickers
    /\ sent' = s.out
    /\ published' = s.pub
    /\ calls' = s.calls

\* a task of the service leaves the state s and nothing else
Install(s) ==
    /\ InstallStream(s)
    /\ UNCHANGED <<fetch, norm, auth, router, comp>>

\* s went through the function called name
call(s, name) == [s EXCEPT !.calls = @ \cup {name}]

\* A subject nobody holds and whose transport is gone: ws is the browser
\* WebSocket's state, bound says the subject still holds the transport
\* (WebSocketSubject._socket), sub says the subscriber passed to
\* socket$.subscribe() is still attached, queued says complete() was called
\* before the transport opened (it is replayed on open).
FreshConn == [ws |-> "connecting", bound |-> TRUE, sub |-> TRUE, queued |-> FALSE]
DeadConn == [ws |-> "closed", bound |-> FALSE, sub |-> FALSE, queued |-> FALSE]

Free(s, id) ==
    /\ s.conn[id].ws = "closed"
    /\ s.socket # id
    /\ s.socketSubscription # id

HasFree(s) == \E id \in Sockets : Free(s, id)

NewId(s) ==
    IF HasFree(s)
    THEN CHOOSE id \in Sockets : Free(s, id) /\ \A j \in Sockets : Free(s, j) => id <= j
    ELSE 0

----------------------------------------------------------------------------
\* rxjs

\* socket$.closed
closed(s, id) == FALSE

\* socket$.complete()
complete(s, id) ==
    IF s.conn[id].bound /\ s.conn[id].ws = "open"
    THEN [s EXCEPT !.conn[id].ws = "closing", !.conn[id].bound = FALSE]
    ELSE IF s.conn[id].bound /\ s.conn[id].ws = "connecting"
    THEN [s EXCEPT !.conn[id].queued = TRUE]
    ELSE s

\* subscription.unsubscribe()
unsubscribe(s, id) ==
    IF ~s.conn[id].sub THEN s
    ELSE IF s.conn[id].ws \in {"connecting", "open"}
    THEN [s EXCEPT !.conn[id] = [ws |-> "closing", bound |-> FALSE,
                                 sub |-> FALSE, queued |-> FALSE]]
    ELSE [s EXCEPT !.conn[id].sub = FALSE, !.conn[id].bound = FALSE,
                   !.conn[id].queued = FALSE]

----------------------------------------------------------------------------
\* StockAlertService

clearReconnectTimeout(s) ==
    IF s.reconnectTimeout # 0
    THEN [s EXCEPT !.reconnectTimeout = 0, !.reconnectArmed = FALSE]
    ELSE s

RECURSIVE Pow2(_)
Pow2(n) == IF n <= 0 THEN 1 ELSE 2 * Pow2(n - 1)

RECURSIVE Pow3(_)
Pow3(n) == IF n <= 0 THEN 1 ELSE 3 * Pow3(n - 1)

Min(a, b) == IF a <= b THEN a ELSE b
Max1(n) == IF n >= 1 THEN n ELSE 1

\* reconnect(): delayMs for the given attempt, in milliseconds
reconnectDelayMs(attempt) == Min(1000 * Pow2(attempt - 1), MaxDelayMs)

\* attemptReconnect(): Math.min(1000 * 1.5^(attempt-1), 30000), in half
\* milliseconds (1000 * 1.5^4 = 5062.5 is no integer)
attemptReconnectDelayHalfMs(attempt) ==
    Min((2000 * Pow3(attempt - 1)) \div Pow2(attempt - 1), 2 * MaxDelayMs)

\* connect(), lines 444-537: the body after the two early returns.  The
\* catch block (539-548) is not modelled: the transport's constructor errors
\* are delivered by rxjs to the subscriber, not thrown.
connectTry(s) ==
    LET s1 == [s EXCEPT !.connectionInProgress = TRUE]
        s2 == IF s1.socket # 0 /\ ~closed(s1, s1.socket)
              THEN [complete(s1, s1.socket) EXCEPT !.socket = 0]
              ELSE s1
        s3 == clearReconnectTimeout(s2)
        s4 == IF s3.socketSubscription # 0
              THEN unsubscribe(s3, s3.socketSubscription)
              ELSE s3
        s5 == [s4 EXCEPT !.socket = 0, !.socketSubscription = 0]
        id == NewId(s5)
    IN IF id = 0 THEN [s EXCEPT !.full = TRUE]
       ELSE [s5 EXCEPT !.socket = id, !.socketSubscription = id,
                       !.conn[id] = FreshConn]

\* connect() without the early return for an existing socket$
connect_noOpenGuard(s) ==
    IF s.connectionInProgress THEN s ELSE connectTry(s)

\* connect(), lines 433-549
connect(s) ==
    IF s.connectionInProgress THEN s
    ELSE IF s.socket # 0 /\ ~closed(s, s.socket) THEN s
    ELSE connectTry(s)

\* setupPing(), lines 640-684: the timers it clears and the interval it arms
setupPing(s) ==
    [s EXCEPT !.pingInterval = TRUE, !.pingTimeout = "null",
              !.lastPongTime = "setup"]

\* openObserver.next that lets the attempt counter decay by one per
\* successful open instead of resetting it
openObserver_decay(s) ==
    setupPing([s EXCEPT !.isConnected = TRUE, !.connectionInProgress = FALSE,
                        !.reconnectAttempts = @ - 1])

\* openObserver.next that does not start the heartbeat
openObserver_noPing(s) ==
    [s EXCEPT !.isConnected = TRUE, !.connectionInProgress = FALSE,
              !.reconnectAttempts = 0]

\* openObserver.next, lines 470-491 (connectionCallbacks is always empty)
openObserver(s) ==
    setupPing([s EXCEPT !.isConnected = TRUE, !.connectionInProgress = FALSE,
                        !.reconnectAttempts = 0])

\* reconnect(), lines 953-990
reconnect(s) ==
    IF s.reconnectAttempts >= maxReconnectAttempts THEN s
    ELSE IF s.activeSubscriptions <= 0 THEN s
    ELSE
      LET s1 == IF s.socket # 0
                THEN [(IF ~closed(s, s.socket) THEN complete(s, s.socket) ELSE s)
                      EXCEPT !.socket = 0]
                ELSE s
          attempt == s1.reconnectAttempts + 1
          s2 == clearReconnectTimeout([s1 EXCEPT !.reconnectAttempts = attempt])
      IN [s2 EXCEPT !.reconnectTimeout = reconnectDelayMs(attempt),
                    !.reconnectArmed = TRUE]

\* attemptReconnect(), lines 686-699: the timer handle is not kept
attemptReconnect(s) ==
    IF s.reconnectAttempts < maxReconnectAttempts
    THEN [s EXCEPT !.reconnectAttempts = @ + 1,
                   !.anonTimers = Append(@, s.reconnectAttempts + 1)]
    ELSE s

\* handleWebSocketClose(), lines 806-826
handleWebSocketClose(s) ==
    LET s1 == [s EXCEPT !.isConnected = FALSE, !.pingInterval = FALSE,
                        !.pingTimeout = "null"]
    IN IF s1.activeSubscriptions > 0 THEN reconnect(s1) ELSE s1

\* handleWebSocketError(), lines 828-836
handleWebSocketError(s) ==
    LET s1 == call(s, "handleWebSocketError")
    IN IF ~s1.connectionInProgress /\ s1.activeSubscriptions > 0
       THEN reconnect(s1)
       ELSE s1

\* closeObserver.next, lines 492-499
closeObserver(s) ==
    handleWebSocketClose([s EXCEPT !.isConnected = FALSE,
                                   !.connectionInProgress = FALSE])

\* an error handler that passes the transport's error on to the alert stream
subscribeError_forwards(s) ==
    handleWebSocketError([s EXCEPT !.alertStream = "errored"])

\* the subscriber's error handler, lines 516-519
subscribeError(s) == handleWebSocketError(s)

\* the subscriber's complete handler, lines 520-536
subscribeComplete(s) ==
    LET s1 == [s EXCEPT !.isConnected = FALSE, !.connectionInProgress = FALSE,
                        !.pingInterval = FALSE]
    IN IF s1.activeSubscriptions > 0 THEN attemptReconnect(s1) ELSE s1

\* a disconnect() that also empties the two replay buffers
disconnectCleanup_dropsReplay(s) ==
    LET s1 == clearReconnectTimeout(
                  [s EXCEPT !.pingInterval = FALSE, !.pingTimeout = "null",
                            !.alertBuf = <<>>, !.tickerBuf = <<>>])
        s2 == IF s1.socketSubscription # 0
              THEN [unsubscribe(s1, s1.socketSubscription)
                    EXCEPT !.socketSubscription = 0]
              ELSE s1
    IN IF s2.socket # 0
       THEN [(IF ~closed(s2, s2.socket) THEN complete(s2, s2.socket) ELSE s2)
             EXCEPT !.socket = 0]
       ELSE s2

\* disconnect(), lines 1000-1043: timers, subscription and socket$
disconnectCleanup(s) ==
    LET s1 == clearReconnectTimeout(
                  [s EXCEPT !.pingInterval = FALSE, !.pingTimeout = "null"])
        s2 == IF s1.socketSubscription # 0
              THEN [unsubscribe(s1, s1.socketSubscription)
                    EXCEPT !.socketSubscription = 0]
              ELSE s1
    IN IF s2.socket # 0
       THEN [(IF ~closed(s2, s2.socket) THEN complete(s2, s2.socket) ELSE s2)
             EXCEPT !.socket = 0]
       ELSE s2

\* disconnect() that leaves connectionInProgress as it is
disconnect_keepsInProgress(s) ==
    [disconnectCleanup(s) EXCEPT !.isConnected = FALSE, !.reconnectAttempts = 0]

\* disconnect(), lines 997-1051
disconnect(s) ==
    [disconnectCleanup(s) EXCEPT !.isConnected = FALSE,
                                 !.connectionInProgress = FALSE,
                                 !.reconnectAttempts = 0]

\* sendMessage(), lines 701-714: next() on the subject sends or buffers
sendMessage(s) ==
    IF s.socket # 0 /\ ~closed(s, s.socket)
    THEN [s EXCEPT !.out = Append(@, [type |-> "message", timestamp |-> "none"])]
    ELSE connect(s)

\* the setInterval callback of setupPing(), lines 659-683
pingIntervalCallback(s) ==
    IF s.socket # 0 /\ ~closed(s, s.socket) /\ s.isConnected
    THEN [s EXCEPT !.pingTimeout = "armed",
                   !.out = Append(@, [type |-> "ping", timestamp |-> "now"])]
    ELSE s

\* the setTimeout callback of setupPing(), lines 670-676; stale says
\* Date.now() - lastPongTime > STALE_CONNECTION_THRESHOLD
pongTimeoutCallback(s, stale) ==
    LET s1 == [s EXCEPT !.pingTimeout = "fired"]
    IN IF stale THEN handleWebSocketError(s1) ELSE s1

\* the setTimeout callback of reconnect(), lines 986-989
reconnectTimerCallback(s) ==
    connect([s EXCEPT !.connectionInProgress = FALSE, !.reconnectArmed = FALSE])

\* the setTimeout callback of attemptReconnect(), lines 693-695
attemptTimerCallback(s, i) ==
    connect([s EXCEPT !.anonTimers =
                 SubSeq(@, 1, i - 1) \o SubSeq(@, i + 1, Len(@))])

----------------------------------------------------------------------------
\* Inbound frames.  A frame is what the deserializer (line 464) hands to the
\* subscriber: e.data, a string or an ArrayBuffer.
\*   form  "legacy"     a string that is 'ping' after trim()
\*         "malformed"  any other string JSON.parse rejects
\*         "jsonFalsy"  a string parsing to null, 0, false or ""
\*         "jsonScalar" a string parsing to a truthy scalar
\*         "binary"     an ArrayBuffer
\*         "object"     a string parsing to an object
\*   type  of an object: "ping", "pong", "alert", "ticker", "other", "none"
\*   ts    its timestamp member: "absent", "falsy" (0, null), "value"
\*   data  its data member: "absent", "falsy", "scalar", "object"
\*   id    the arrival number of an alert or ticker frame among its kind

Frame(form, type, ts, data, id) ==
    [form |-> form, type |-> type, ts |-> ts, data |-> data, id |-> id]

NoFrame == Frame("none", "none", "absent", "absent", 0)

\* Heartbeat frames and frames the service has no handler for
ControlFrames ==
    {Frame(form, "none", "absent", "absent", 0) :
        form \in {"legacy", "malformed", "jsonFalsy", "jsonScalar", "binary"}}
    \cup {Frame("object", type, ts, "absent", 0) :
             type \in {"ping", "pong"}, ts \in {"absent", "falsy", "value"}}
    \cup {Frame("object", type, "absent", "absent", 0) : type \in {"other", "none"}}

\* Alert and ticker frames of every shape of the data member, numbered n
DataFrames(type, n) ==
    {Frame("object", type, "absent", data, n) :
        data \in {"absent", "falsy", "scalar", "object"}}

\* a buffer that keeps one value more than its size
trim_offByOne(buf, size) ==
    IF Len(buf) > size + 1 THEN SubSeq(buf, Len(buf) - size, Len(buf)) ELSE buf

\* ReplaySubject.next(): the value is buffered, the buffer is trimmed to its
\* size from the front, and the value is delivered to the subscribers
trim(buf, size) ==
    IF Len(buf) > size THEN SubSeq(buf, Len(buf) - size + 1, Len(buf)) ELSE buf

\* a subject that hands the newest value over first
messageSubjectNext_prepends(s, v) ==
    IF s.alertStream # "active" THEN s
    ELSE [s EXCEPT !.alertBuf = trim(<<v>> \o @, alertReplaySize),
                   !.rcvAlerts = IF s.subscribed THEN <<v>> \o @ ELSE @,
                   !.pub = Append(@, v)]

messageSubjectNext(s, v) ==
    IF s.alertStream # "active" THEN s
    ELSE [s EXCEPT !.alertBuf = trim(Append(@, v), alertReplaySize),
                   !.rcvAlerts = IF s.subscribed THEN Append(@, v) ELSE @,
                   !.pub = Append(@, v)]

tickerSubjectNext(s, v) ==
    IF s.tickerStream # "active" THEN s
    ELSE [s EXCEPT !.tickerBuf = trim(Append(@, v), tickerReplaySize),
                   !.rcvTickers = IF s.subscribed THEN Append(@, v) ELSE @,
                   !.pub = Append(@, v)]

\* handlePing(timestamp), lines 611-627: timestamp || Date.now()
handlePing(s, ts) ==
    IF s.socket # 0 /\ ~closed(s, s.socket)
    THEN [s EXCEPT !.out = Append(@,
             [type |-> "pong",
              timestamp |-> IF ts = "value" THEN "frame" ELSE "now"])]
    ELSE s

\* a handlePong() that records the time and leaves the timeout pending
handlePong_keepsTimeout(s, ts) ==
    [call(s, "handlePong") EXCEPT
        !.lastPongTime = IF ts = "value" THEN "frame" ELSE "now"]

\* handlePong(timestamp), lines 630-638; a timeout that already fired still
\* has its handle in this.pingTimeout
handlePong(s, ts) ==
    [call(s, "handlePong") EXCEPT
        !.lastPongTime = IF ts = "value" THEN "frame" ELSE "now",
        !.pingTimeout = "null"]

\* what a published value is made from: the data member or the frame itself
Payload(kind, f) ==
    [kind |-> kind, from |-> IF f.data = "absent" THEN "frame" ELSE "data",
     id |-> f.id]

\* handleAlertMessage(), lines 933-949: formatAlertData() throws on falsy
\* data (line 552), the exception is caught and logged
handleAlertMessage(s, f) ==
    IF f.data = "falsy" THEN s
    ELSE messageSubjectNext(s, Payload("alert", f))

\* handleTickerMessage(), lines 838-862: only a truthy object is published
handleTickerMessage(s, f) ==
    IF f.data \in {"absent", "object"}
    THEN tickerSubjectNext(s, Payload("ticker", f))
    ELSE s

\* processParsedMessage(), lines 895-929
processParsedMessage(s, f) ==
    CASE f.form = "jsonFalsy" -> s
      [] f.form # "jsonFalsy" /\ f.type = "ping" -> handlePing(s, f.ts)
      [] f.form # "jsonFalsy" /\ f.type = "pong" -> handlePong(s, f.ts)
      [] f.form # "jsonFalsy" /\ f.type = "alert" -> handleAlertMessage(s, f)
      [] f.form # "jsonFalsy" /\ f.type = "ticker" -> handleTickerMessage(s, f)
      [] OTHER -> s

\* a handler without the shortcut for the legacy heartbeat token
handleWebSocketMessage_noShortcut(s, f) ==
    CASE f.form \in {"legacy", "malformed"} -> call(s, "JSON.parse")
      [] f.form \in {"jsonFalsy", "jsonScalar", "object"} ->
            processParsedMessage(call(s, "JSON.parse"), f)
      [] f.form = "binary" -> processParsedMessage(s, f)

\* a handler whose parse failure reaches the outer catch
handleWebSocketMessage_rethrows(s, f) ==
    CASE f.form = "legacy" -> handlePong(s, "absent")
      [] f.form = "malformed" -> handleWebSocketError(call(s, "JSON.parse"))
      [] f.form \in {"jsonFalsy", "jsonScalar", "object"} ->
            processParsedMessage(call(s, "JSON.parse"), f)
      [] f.form = "binary" -> processParsedMessage(s, f)

\* handleWebSocketMessage(), lines 864-893
handleWebSocketMessage(s, f) ==
    CASE f.form = "legacy" -> handlePong(s, "absent")
      [] f.form = "malformed" -> call(s, "JSON.parse")
      [] f.form \in {"jsonFalsy", "jsonScalar", "object"} ->
            processParsedMessage(call(s, "JSON.parse"), f)
      [] f.form = "binary" -> processParsedMessage(s, f)

\* the next handler of socket$.subscribe(), lines 509-515
subscribeNext(s, f) == handleWebSocketMessage(s, f)

----------------------------------------------------------------------------
\* The transport's events as rxjs delivers them to the service

\* messages$.subscribe() and tickerData$.subscribe() of a component
\* (StockAlerts.setupWebSocket, lines 941-1001): a ReplaySubject first
\* replays its buffer to the new subscriber
subscribeStreams(s) ==
    [s EXCEPT !.subscribed = TRUE,
              !.rcvAlerts = s.alertBuf,
              !.rcvTickers = s.tickerBuf]

\* socket.onmessage: the frame reaches a subscriber still attached
onmessage(s, id, f) ==
    IF s.conn[id].sub THEN subscribeNext(s, f) ELSE s

\* socket.onopen
onopen(s, id) ==
    IF ~s.conn[id].bound
    THEN [s EXCEPT !.conn[id].ws = "closing"]
    ELSE LET s1 == openObserver([s EXCEPT !.conn[id].ws = "open"])
         IN IF s1.conn[id].queued
            THEN [s1 EXCEPT !.conn[id].ws = "closing", !.conn[id].bound = FALSE,
                            !.conn[id].queued = FALSE]
            ELSE s1

\* observer.error(e) / observer.complete() reaching the subscriber of
\* socket$.subscribe(): it is delivered once, to a subscriber still attached
deliver(s, id, clean) ==
    IF ~s.conn[id].sub THEN s
    ELSE LET s1 == [s EXCEPT !.conn[id].sub = FALSE]
         IN IF clean THEN subscribeComplete(s1) ELSE subscribeError(s1)

\* socket.onerror
onerror(s, id) ==
    deliver([s EXCEPT !.conn[id].bound = FALSE, !.conn[id].queued = FALSE],
            id, FALSE)

\* socket.onclose
onclose(s, id, wasClean) ==
    LET s1 == [s EXCEPT !.conn[id] = [@ EXCEPT !.ws = "closed", !.bound = FALSE,
                                               !.queued = FALSE]]
    IN deliver(closeObserver(s1), id, wasClean)

----------------------------------------------------------------------------
\* REST fetches.  A value travelling through a pipe is a record:
\*   kind    "error" (an HttpErrorResponse or a thrown Error), "null" (empty
\*           body), "array", "data" ({data: [...]}), "page" ({content: [...]})
\*           or "other" (any other object)
\*   status  the HTTP status; -1 for an Error thrown by the client
\*   from    whose array the content is: "server", "array" (the bare array
\*           of the response), "data" (its data member) or "none" (a new [])
\*   len     the length of that array

Val(kind, status, from, len, number, size, isLast, total) ==
    [kind |-> kind, status |-> status, from |-> from, len |-> len,
     number |-> number, size |-> size, last |-> isLast, total |-> total]

NoVal == Val("none", 0, "none", 0, 0, 0, FALSE, 0)

ErrorStatuses == {0, 401, 403, 404, 500}

\* what the server, or the network, answers to a request for page p
Responses(p) ==
    {Val("error", st, "server", 0, 0, 0, FALSE, 0) : st \in ErrorStatuses}
    \cup {Val(k, 200, "server", 0, 0, 0, FALSE, 0) : k \in {"null", "other"}}
    \cup {Val(k, 200, "server", n, 0, 0, FALSE, 0) :
             k \in {"array", "data"}, n \in 0..MaxLen}
    \cup {Val("page", 200, "server", n, p, n, l, n) :
             n \in 0..MaxLen, l \in BOOLEAN}

\* a notification: next(v), error(v), or the resubscription retry() makes
Note(n, v) == [n |-> n, v |-> v]

\* http.get(): a failed request errors, any other emits the parsed body
httpGet(r) == IF r.kind = "error" THEN Note("error", r) ELSE Note("next", r)

\* tap(), lines 318-323: throws on an empty response
tapFree(x) ==
    IF x.n = "next" /\ x.v.kind = "null"
    THEN Note("error", Val("error", -1, "none", 0, 0, 0, FALSE, 0))
    ELSE x

\* the emptyResponse of lines 327-345
emptyResponse(page, size) == Val("page", 200, "none", 0, page, size, TRUE, 0)

\* a catchError() that lets the error through
catchErrorFree_rethrows(x, page, size) == x

\* catchError(), lines 324-348
catchErrorFree(x, page, size) ==
    IF x.n = "error" THEN Note("next", emptyResponse(page, size)) ELSE x

\* a retry() that never resubscribes
retry_never(x, used, count) == x

\* retry(count): an error resubscribes to the source until count
\* resubscriptions were made
retry(x, used, count) ==
    IF x.n = "error" /\ used < count THEN Note("retry", NoVal) ELSE x

\* a createPaginatedResponse() whose page is always the last one
createPaginatedResponse_lastTrue(from, len, page, size) ==
    Val("page", 200, from, len, page, size, TRUE, len)

\* createPaginatedResponse(), lines 409-430
createPaginatedResponse(from, len, page, size) ==
    Val("page", 200, from, len, page, size, len < size, len)

\* map(), lines 374-397
mapPaid(x, page, size) ==
    IF x.n # "next" THEN x
    ELSE CASE x.v.kind = "array" ->
                Note("next", createPaginatedResponse("array", x.v.len, page, size))
           [] x.v.kind = "data" ->
                Note("next", createPaginatedResponse("data", x.v.len, page, size))
           [] x.v.kind = "page" -> x
           [] OTHER -> Note("next", createPaginatedResponse("none", 0, page, size))

\* a catchError() that answers an error with an empty page
catchErrorPaid_swallows(x, page, size) ==
    IF x.n = "error" THEN Note("next", emptyResponse(page, size)) ELSE x

\* catchError(), lines 399-405: throwError(() => error)
catchErrorPaid(x, page, size) ==
    IF x.n = "error" THEN Note("error", x.v) ELSE x

\* getFreeAlerts(), lines 303-352: pipe(tap, catchError, retry(2))
getFreeAlerts(r, used, page, size) ==
    retry(catchErrorFree(tapFree(httpGet(r)), page, size), used, freeRetryCount)

\* getPaidAlerts(), lines 354-407: pipe(map, retry(2), catchError)
getPaidAlerts(r, used, page, size) ==
    catchErrorPaid(retry(mapPaid(httpGet(r), page, size), used, paidRetryCount),
                   page, size)

\* the error handler of loadPaidAlerts(), stock-alerts.ts lines 909-928
paidErrorHandler(err) ==
    CASE err.status \in {401, 403} -> "logout"
      [] err.status = 0 -> "offline"
      [] err.status = 404 -> "notFound"
      [] OTHER -> "failed"

\* no fetch was made
NoFetch ==
    [kind |-> "none", page |-> 0, size |-> 0, requests |-> 0, errors |-> 0,
     phase |-> "idle", reply |-> NoVal, outcome |-> Note("none", NoVal),
     reaction |-> "none"]

----------------------------------------------------------------------------
\* The two normalizers.  A JavaScript value is a record:
\*   t  "undef" (the key is absent), "null", "num" (the number n * 10^e),
\*      "nan", "now" (the number Date.now() of normalizer call n),
\*      "str" (the string s), "numstr" (the decimal digits of n * 10^e),
\*      "iso" (the ISO-8601 string of the instant n * 10^e ms),
\*      "isoNow" (the ISO-8601 string of the Date.now() of call n)
\* A payload is null or an object.  Of an alert's fields the model keeps
\* one of each way the normalizers treat them: id, symbol, ltp (which falls
\* back on closePrice), closePrice, week52High, alertTime (which falls back
\* on createdAt), createdAt and redisAlertKey.

JsVal(t, n, e, s) == [t |-> t, n |-> n, e |-> e, s |-> s]

Undef == JsVal("undef", 0, 0, "")
Null == JsVal("null", 0, 0, "")
NaN == JsVal("nan", 0, 0, "")
Num(n, e) == JsVal("num", n, e, "")
Str(s) == JsVal("str", 0, 0, s)
NumStr(n, e) == JsVal("numstr", n, e, "")
Iso(n, e) == JsVal("iso", n, e, "")
Now(k) == JsVal("now", k, 0, "")
IsoNow(k) == JsVal("isoNow", k, 0, "")

Fields ==
    {"id", "symbol", "ltp", "closePrice", "week52High", "alertTime",
     "createdAt", "redisAlertKey"}

\* the object {}
Blank == [k \in Fields |-> Undef]

Payload0(shape, f) == [shape |-> shape, f |-> f]

\* what a normalizer returns (ok), or that it threw
Returned(f) == [ok |-> TRUE, f |-> f]
Threw == [ok |-> FALSE, f |-> Blank]

\* !!v
Truthy(v) ==
    CASE v.t \in {"undef", "null", "nan"} -> FALSE
      [] v.t = "num" -> v.n # 0
      [] v.t = "str" -> v.s # ""
      [] OTHER -> TRUE

\* a || b
Or(a, b) == IF Truthy(a) THEN a ELSE b

\* Number(v)
Number(v) ==
    CASE v.t \in {"num", "now"} -> v
      [] v.t = "null" -> Num(0, 0)
      [] v.t = "numstr" -> Num(v.n, v.e)
      [] v.t = "str" /\ v.s = "" -> Num(0, 0)
      [] OTHER -> NaN

\* String(v)
String(v) ==
    CASE v.t = "num" -> NumStr(v.n, v.e)
      [] v.t = "now" -> IsoNow(v.n)
      [] OTHER -> v

\* s.toUpperCase(); digits and ISO-8601 strings have no lower-case letter
toUpperCase(v) ==
    IF v.t # "str" THEN v
    ELSE Str(CASE v.s = "tcs" -> "TCS"
               [] v.s = "abc" -> "ABC"
               [] v.s = "k" -> "K"
               [] OTHER -> v.s)

\* the number of decimal digits of the number or digit string v; mantissas
\* are below 100
Digits(v) ==
    IF v.t = "now" THEN 13
    ELSE IF v.n = 0 THEN 1
    ELSE (IF v.n < 10 THEN 1 ELSE 2) + v.e

\* { ...o, ...data }: the own properties of data replace those of o
Spread(o, data) == [k \in Fields |-> IF data[k].t # "undef" THEN data[k] ELSE o[k]]

\* parseTimestamp() of formatAlertData(), lines 557-570, in call number k
parseTimestamp(ts, k) ==
    CASE ts.t \in {"undef", "null"} -> Now(k)
      [] ts.t \in {"num", "now"} ->
            IF Digits(ts) = 10 THEN Num(ts.n, ts.e + 3) ELSE ts
      [] ts.t = "numstr" ->
            IF Digits(ts) = 10 THEN Num(ts.n, ts.e + 3) ELSE Num(ts.n, ts.e)
      [] ts.t = "iso" -> Num(ts.n, ts.e)
      [] ts.t = "isoNow" -> Now(ts.n)
      [] OTHER -> Now(k)

\* formatAlertData(), lines 551-609, in call number k
formatAlertData(p, k) ==
    IF p.shape = "null" THEN Threw
    ELSE LET data == p.f
             number(v) == Or(Number(v), Num(0, 0))
             o == [id |-> Or(data.id, Num(0, 0)),
                   symbol |-> Or(data.symbol, Str("")),
                   ltp |-> number(data.ltp),
                   closePrice |-> number(data.closePrice),
                   week52High |-> IF Truthy(data.week52High)
                                  THEN Number(data.week52High) ELSE Null,
                   alertTime |-> parseTimestamp(data.alertTime, k),
                   createdAt |-> parseTimestamp(data.createdAt, k),
                   redisAlertKey |-> Or(data.redisAlertKey, Null)]
         IN Returned(Spread(o, data))

\* firstValid() of convertToStockAlert(), lines 436-439
RECURSIVE firstValid(_)
firstValid(values) ==
    IF values = <<>> THEN Undef
    ELSE LET v == Head(values)
         IN IF v.t \in {"undef", "null"} \/ v = Str("") THEN firstValid(Tail(values))
            ELSE v

\* getNumber(), lines 412-416
getNumber(value, defaultValue) ==
    IF value.t \in {"undef", "null"} \/ value = Str("") THEN defaultValue
    ELSE IF Number(value).t = "nan" THEN defaultValue ELSE Number(value)

\* getString(), lines 419-421
getString(value, defaultValue) ==
    IF value.t \in {"undef", "null"} \/ value = Str("") THEN defaultValue
    ELSE String(value)

\* the largest time value a Date holds is 8.64e15 ms
ValidTime(v) == v.t = "now" \/ Digits(v) <= 15

\* getDate(), lines 424-434, in call number k; toISOString() throws a
\* RangeError on an invalid Date, which is NaN here
getDate(value, k) ==
    CASE ~Truthy(value) -> IsoNow(k)
      [] value.t = "now" -> IsoNow(value.n)
      [] value.t = "num" /\ value.n # 0 ->
            IF ValidTime(value) THEN Iso(value.n, value.e) ELSE NaN
      [] value.t \in {"iso", "isoNow"} -> value
      [] OTHER -> IsoNow(k)

\* convertToStockAlert(), stock-alerts.ts lines 407-548, in call number k;
\* the aliases of a field that the payload does not carry are undefined
convertToStockAlert(p, k) ==
    IF p.shape = "null" THEN Threw
    ELSE LET alert == p.f
             timestamp == Now(k)
             date == getDate(firstValid(<<alert.alertTime, alert.createdAt,
                                          timestamp>>), k)
         IN IF date.t = "nan" THEN Threw
            ELSE Returned(
              [id |-> getNumber(firstValid(<<alert.id, Undef, timestamp>>),
                                timestamp),
               symbol |-> toUpperCase(getString(
                              firstValid(<<alert.symbol, Undef, Str("N/A")>>),
                              Str("N/A"))),
               ltp |-> getNumber(firstValid(<<alert.ltp, alert.closePrice>>),
                                 Num(0, 0)),
               closePrice |-> getNumber(firstValid(<<alert.closePrice>>), Num(0, 0)),
               week52High |-> getNumber(firstValid(<<alert.week52High>>), Num(0, 0)),
               alertTime |-> date,
               createdAt |-> getNumber(Or(alert.createdAt, Undef), timestamp),
               redisAlertKey |-> IF alert.redisAlertKey.t # "undef"
                                 THEN getString(alert.redisAlertKey, Str(""))
                                 ELSE Null])

\* the payloads a normalizer is given
Payloads ==
    {Payload0("null", Blank)} \cup
    {Payload0("object",
        [id |-> id, symbol |-> symbol, ltp |-> ltp, closePrice |-> closePrice,
         week52High |-> week52High, alertTime |-> alertTime,
         createdAt |-> createdAt, redisAlertKey |-> redisAlertKey]) :
        id \in {Undef, Num(7, 0)},
        symbol \in {Undef, Null, Str("tcs"), Str("TCS")},
        ltp \in {Undef, Null, Num(5, 0), NumStr(12, 0), Str("abc")},
        closePrice \in {Undef, Num(9, 0)},
        week52High \in {Undef, Num(5, 0), Str("abc")},
        alertTime \in {Undef, Num(17, 8), Num(17, 11), Iso(17, 11),
                       Str("abc"), Num(9, 16)},
        createdAt \in {Undef, Num(17, 8)},
        redisAlertKey \in {Undef, Null, Str("k")}}

\* the normalizer of a path: formatAlertData on the stream path
\* (handleAlertMessage), convertToStockAlert on the REST path
normalize(path, p, k) ==
    IF path = "stream" THEN formatAlertData(p, k) ELSE convertToStockAlert(p, k)

\* no payload was given to a normalizer
NoNorm == [path |-> "none", passes |-> 0]

\* the payload p is about to be given to the normalizer of path
NormOf(path, p) ==
    [path |-> path, raw |-> p, passes |-> 0, once |-> Threw, twice |-> Threw]

----------------------------------------------------------------------------

----------------------------------------------------------------------------
\* AuthService and the route guards.  A user is a record:
\*   t             "null" or "user"
\*   email         k for user<k>@gmail.com
\*   isSubscribed  the flag of the User object
\*   shared        the object is also an element of mockUsers (it came from
\*                 login() in this session, not from localStorage)
\* The item 'currentUser' of localStorage is "absent", a string that
\* JSON.parse rejects ("garbage"), or the JSON of a user.

User(email, isSubscribed, shared) ==
    [t |-> "user", email |-> email, isSubscribed |-> isSubscribed,
     shared |-> shared]

NullUser == [t |-> "null", email |-> 0, isSubscribed |-> FALSE, shared |-> FALSE]

Item(t, u) == [t |-> t, u |-> u]

Emails == 1..MaxUsers

\* what localStorage can hold when the application starts
StoredItems ==
    {Item("absent", NullUser), Item("garbage", NullUser)}
    \cup {Item("user", User(e, b, FALSE)) : e \in Emails, b \in BOOLEAN}

\* getUserFromStorage(), lines 126-136
getUserFromStorage(item) == IF item.t = "user" THEN item.u ELSE NullUser

\* saveUserToStorage(), lines 119-121: JSON.stringify keeps the fields
saveUserToStorage(a, user) ==
    [a EXCEPT !.stored = Item("user", [user EXCEPT !.shared = FALSE])]

\* the service after its constructor, lines 9-40; mockUsers maps an email to
\* "none" or to the subscription of the user pushed for it
AuthService0(item) ==
    [currentUser |-> getUserFromStorage(item), stored |-> item,
     mockUsers |-> [e \in Emails |-> "none"], op |-> "init"]

\* no AuthService was constructed
NoAuth == [currentUser |-> NullUser, op |-> "none"]

\* login(), lines 45-67, when Math.random() gives the address e
login(a, e) ==
    LET user == IF a.mockUsers[e] = "none" THEN User(e, FALSE, TRUE)
                ELSE User(e, a.mockUsers[e] = "paid", TRUE)
        b == saveUserToStorage(a, user)
    IN [b EXCEPT !.mockUsers[e] = IF @ = "none" THEN "free" ELSE @,
                 !.currentUser = user, !.op = "login"]

\* a logout() that forgets the stored user only
logout_keepsUser(a) ==
    [a EXCEPT !.stored = Item("absent", NullUser), !.op = "logout"]

\* logout(), lines 111-114
logout(a) ==
    [a EXCEPT !.stored = Item("absent", NullUser), !.currentUser = NullUser,
              !.op = "logout"]

\* updateSubscription(), lines 94-106
updateSubscription(a, isSubscribed) ==
    IF a.currentUser.t # "user" THEN [a EXCEPT !.op = "update"]
    ELSE LET user == [a.currentUser EXCEPT !.isSubscribed = isSubscribed]
             b == saveUserToStorage(a, user)
         IN [b EXCEPT !.mockUsers[user.email] =
                          IF user.shared
                          THEN (IF isSubscribed THEN "paid" ELSE "free") ELSE @,
                      !.currentUser = user, !.op = "update"]

\* getCurrentUser(), isAuthenticated(), isSubscribed(), lines 72-89
getCurrentUser(a) == a.currentUser
isAuthenticated(a) == a.currentUser.t # "null"
isSubscribed(a) == IF a.currentUser.t = "user" THEN a.currentUser.isSubscribed ELSE FALSE

\* authGuard, auth.guard.ts lines 6-21: true or the UrlTree of /login
authGuard(a) == IF a.currentUser.t = "user" THEN "true" ELSE "/login"

\* publicGuard, auth.guard.ts lines 23-38: true or the UrlTree of /alerts
publicGuard(a) == IF a.currentUser.t # "user" THEN "true" ELSE "/alerts"

\* the routes, src/unnamed/part_000 lines 5-34
Paths == {"/alerts", "/login", "/subscription"}
canActivate(a, path) == IF path = "/login" THEN publicGuard(a) ELSE authGuard(a)

\* router.navigate([path]): the guard of the route runs; a UrlTree redirects
\* to its URL, whose guard runs in turn; a navigation that is refused twice
\* leaves the URL as it was
navigate(r, a, path) ==
    LET v == canActivate(a, path)
        w == IF v = "true" THEN "true" ELSE canActivate(a, v)
    IN [url |-> IF v = "true" THEN path ELSE IF w = "true" THEN v ELSE r.url,
        asked |-> path, verdict |-> v]

\* the Router before its first navigation
NoRoute == [url |-> "none", asked |-> "none", verdict |-> "none"]

\* no component was created
NoComp == [phase |-> "none"]

----------------------------------------------------------------------------
\* The StockAlerts component.  Its lists hold the id of each alert
\* (freeAlerts, paidAlerts) or its id, symbol and alertTime (realTimeAlerts);
\* the error text, the column settings and the blinking flags are left out.
\* A request the component subscribed to is a record:
\*   n         tells it from the equal requests in flight
\*   kind      "free" or "paid"
\*   sub       which of the two subscriptions of loadPaidAlerts() it is
\*   page      the page asked for
\*   target    targetPage of the call
\*   loadMore  the argument of the call
\*   init      the call is the one whose promise ngOnInit() waits for
\* The operators take and return the world w: the component c, the
\* AuthService a, the Router r and the StockAlertService sv.

Req(kind, sub, page, target, loadMore, init) ==
    [n |-> 0, kind |-> kind, sub |-> sub, page |-> page, target |-> target,
     loadMore |-> loadMore, init |-> init]

\* subscribe() on the observable of a request: the request is now in flight;
\* over is set when the model has no request left (the step is not taken)
issue(c, q) ==
    LET n == 1 + Cardinality({k \in 1..MaxLoads : [q EXCEPT !.n = k] \in c.pending})
    IN IF c.issued >= MaxLoads THEN [c EXCEPT !.over = TRUE]
       ELSE [c EXCEPT !.issued = @ + 1,
                      !.pending = @ \cup {[q EXCEPT !.n = n]}]

\* the alert with id n of a REST page, and the alert the stream emits with
\* id n, symbol s and alertTime t * 10^11 ms
RestAlert(n) == Payload0("object", [Blank EXCEPT !.id = Num(n, 0)])
StreamAlert(n, s, tm) ==
    Payload0("object", [Blank EXCEPT !.id = Num(n, 0), !.symbol = Str(s),
                                     !.alertTime = Num(tm, 11)])

\* alertsArray.map(alert => this.convertToStockAlert(alert)) for the page
\* whose alerts have the ids first, first + 1, ...: the ids of the result
convertPage(first, len) ==
    [i \in 1..len |-> convertToStockAlert(RestAlert(first + i - 1), i).f.id.n]

SeqRange(seq) == {seq[i] : i \in 1..Len(seq)}

\* alerts.filter(alert => !existingIds.has(alert.id))
newAlerts(alerts, existing) ==
    SelectSeq(alerts, LAMBDA x : x \notin SeqRange(existing))

\* what the component did last: for the observer of a request, which
\* subscription it is and the HTTP status the request ended with
Did(op, q, status) ==
    [op |-> IF op = "reply" THEN op ELSE "other", sub |-> q.sub, status |-> status]
NoReq == Req("none", "none", 0, 0, FALSE, FALSE)
NoDid == Did("constructor", NoReq, 0)

\* the alert number n of the stream: alerts with different numbers differ in
\* symbol or alertTime
AlertNo(n) == StreamAlert(n, IF n % 2 = 1 THEN "tcs" ELSE "abc", 10 + (n \div 2))

\* the component after its constructor, lines 48-125
StockAlerts0(a) ==
    LET paid == isAuthenticated(a) /\ isSubscribed(a)
    IN [phase |-> "constructed", isPaidUser |-> paid,
        activeTab |-> IF paid THEN "premium" ELSE "free",
        isLoading |-> FALSE, hasMore |-> TRUE, currentPage |-> 0,
        freeAlerts |-> <<>>, paidAlerts |-> <<>>, realTimeAlerts |-> <<>>,
        scrollDebounceTimer |-> "null", pending |-> {}, issued |-> 0,
        over |-> FALSE, streamed |-> 0, fresh |-> 0, clock |-> 0,
        init |-> "none",
        authSub |-> FALSE, did |-> NoDid]

\* loadFreeAlerts(), lines 550-702, up to its subscribe() call
loadFreeAlerts(w, loadMore) ==
    LET c == w.c
        targetPage == IF loadMore THEN c.currentPage + 1 ELSE 0
        c1 == IF ~loadMore
              THEN [c EXCEPT !.currentPage = 0, !.hasMore = TRUE,
                             !.freeAlerts = <<>>]
              ELSE c
    IN IF c.isLoading THEN w
       ELSE IF ~c1.hasMore THEN [w EXCEPT !.c = c1]
       ELSE [w EXCEPT !.c = issue([c1 EXCEPT !.isLoading = TRUE],
                                  Req("free", "only", targetPage, targetPage,
                                      loadMore, FALSE))]

\* loadPaidAlerts(), lines 704-934, up to the two subscribe() calls: the
\* first asks for targetPage, the second for this._currentPage
loadPaidAlerts(w, loadMore, init) ==
    LET c == w.c
        targetPage == IF loadMore THEN c.currentPage + 1 ELSE 0
        c1 == IF ~loadMore
              THEN [c EXCEPT !.currentPage = 0, !.hasMore = TRUE,
                             !.paidAlerts = <<>>]
              ELSE c
        c2 == issue([c1 EXCEPT !.isLoading = TRUE,
                               !.init = IF init THEN "pending" ELSE @],
                    Req("paid", "first", targetPage, targetPage, loadMore, init))
    IN IF ~c.isPaidUser \/ c.isLoading \/ (loadMore /\ ~c.hasMore) THEN w
       ELSE [w EXCEPT !.c = issue(c2, Req("paid", "second", c1.currentPage,
                                          targetPage, loadMore, init))]

\* setupWebSocket(), lines 936-1002: connect() and the two subscriptions;
\* the replay buffers are empty when the component is the first to listen
setupWebSocket(w) == [w EXCEPT !.sv = subscribeStreams(connect(@))]

\* the handler of authState$, lines 308-318
onAuthState(w, user) ==
    LET paid == user.t = "user" /\ user.isSubscribed
        w1 == [w EXCEPT !.c.isPaidUser = paid]
    IN IF paid /\ w1.c.activeTab = "premium" THEN loadPaidAlerts(w1, FALSE, FALSE)
       ELSE IF w1.c.activeTab = "free" THEN loadFreeAlerts(w1, FALSE)
       ELSE IF w1.c.activeTab = "premium" /\ ~paid
       THEN [w1 EXCEPT !.c.activeTab = "free"]
       ELSE w1

\* authService.logout() called by the component: the BehaviorSubject hands
\* null to the handler of authState$ while that is subscribed
authLogout(w) ==
    LET w1 == [w EXCEPT !.a = logout(@)]
    IN IF w1.c.authSub THEN onAuthState(w1, NullUser) ELSE w1

\* ngOnInit(), lines 283-320; a BehaviorSubject hands its value to a new
\* subscriber at once
ngOnInit(w) ==
    LET currentUser == getCurrentUser(w.a)
        paid == currentUser.t = "user" /\ currentUser.isSubscribed
        w1 == [w EXCEPT !.c.phase = "ready", !.c.isPaidUser = paid,
                        !.c.activeTab = IF paid THEN "premium" ELSE "free"]
        w2 == IF paid THEN loadPaidAlerts(w1, FALSE, TRUE)
              ELSE setupWebSocket(loadFreeAlerts(w1, FALSE))
    IN onAuthState([w2 EXCEPT !.c.authSub = TRUE], currentUser)

\* the promise of the loadPaidAlerts() call of ngOnInit() is resolved or
\* rejected by the first subscription that gets there; then() of line 296
\* runs setupWebSocket() once it is resolved, and nothing once it is rejected
settle(w, q, how) ==
    IF q.init /\ w.c.init = "pending"
    THEN (IF how = "resolved" THEN setupWebSocket([w EXCEPT !.c.init = how])
          ELSE [w EXCEPT !.c.init = how])
    ELSE w

\* finalize() of lines 602-623, 750-761 and 835-840
finalize(w) == [w EXCEPT !.c.isLoading = FALSE]

\* a handler that appends the whole page on a load-more
freeNext_appendsAll(w, q, v, first) ==
    LET c == w.c
        len == IF v.kind \in {"array", "page"} THEN v.len ELSE 0
        alerts == convertPage(first, len)
    IN [w EXCEPT !.c.freeAlerts = IF q.loadMore THEN c.freeAlerts \o alerts
                                  ELSE alerts,
                 !.c.hasMore = (Len(alerts) = pageSize),
                 !.c.currentPage = q.target]

\* next of the subscription of loadFreeAlerts(), lines 627-694, for the
\* response v whose content starts with the id first
freeNext(w, q, v, first) ==
    LET c == w.c
        len == IF v.kind \in {"array", "page"} THEN v.len ELSE 0
        alerts == convertPage(first, len)
        fresh == newAlerts(alerts, c.freeAlerts)
    IN IF q.loadMore /\ fresh = <<>> THEN [w EXCEPT !.c.hasMore = FALSE]
       ELSE [w EXCEPT !.c.freeAlerts = IF q.loadMore THEN c.freeAlerts \o fresh
                                       ELSE alerts,
                      !.c.hasMore = (Len(alerts) = pageSize),
                      !.c.currentPage = q.target]

\* error of the subscription of loadFreeAlerts(), lines 695-700
freeError(w) == [w EXCEPT !.c.freeAlerts = <<>>]

\* next of the first subscription of loadPaidAlerts(), lines 764-825
paidNext1(w, q, v, first) ==
    LET c == w.c
        alerts == convertPage(first, v.len)
        fresh == newAlerts(alerts, c.paidAlerts)
    IN IF v.len = 0 \/ (q.loadMore /\ fresh = <<>>)
       THEN settle([w EXCEPT !.c.hasMore = FALSE], q, "resolved")
       ELSE settle([w EXCEPT !.c.paidAlerts = IF q.loadMore
                                              THEN c.paidAlerts \o fresh
                                              ELSE alerts,
                             !.c.hasMore = (Len(alerts) = pageSize),
                             !.c.currentPage = q.target],
                   q, "resolved")

\* error of the first subscription, lines 826-831
paidError1(w, q, err) == settle(w, q, "rejected")

\* next of the second subscription of loadPaidAlerts(), lines 842-908
paidNext2(w, q, v, first) ==
    LET c == w.c
        alerts == convertPage(first, v.len)
        list == IF q.loadMore THEN c.paidAlerts \o alerts ELSE alerts
    IN IF v.len = 0 THEN settle([w EXCEPT !.c.paidAlerts = <<>>], q, "resolved")
       ELSE settle([w EXCEPT !.c.paidAlerts = list,
                             !.c.hasMore = (~v.last \/ v.total > Len(list)),
                             !.c.currentPage = v.number],
                   q, "resolved")

\* error of the second subscription, lines 909-928
paidError2(w, q, err) ==
    LET w1 == IF paidErrorHandler(err) = "logout"
              THEN LET w2 == authLogout(w)
                   IN [w2 EXCEPT !.r = navigate(w2.r, w2.a, "/login")]
              ELSE w
    IN settle([w1 EXCEPT !.c.paidAlerts = <<>>], q, "rejected")

\* what the observer of the request q does with the notification x of the
\* service, followed by finalize()
observe(w, q, x, first) ==
    finalize(
      CASE q.kind = "free" /\ x.n = "next" -> freeNext(w, q, x.v, first)
        [] q.kind = "free" /\ x.n = "error" -> freeError(w)
        [] q.sub = "first" /\ x.n = "next" -> paidNext1(w, q, x.v, first)
        [] q.sub = "first" /\ x.n = "error" -> paidError1(w, q, x.v)
        [] q.sub = "second" /\ x.n = "next" -> paidNext2(w, q, x.v, first)
        [] q.sub = "second" /\ x.n = "error" -> paidError2(w, q, x.v))

\* a processNewAlert() that keeps every alert
processNewAlert_noLimit(c, p) ==
    IF \E i \in 1..Len(c.realTimeAlerts) :
          /\ c.realTimeAlerts[i].symbol = p.symbol
          /\ c.realTimeAlerts[i].alertTime = p.alertTime
    THEN c
    ELSE [c EXCEPT !.realTimeAlerts = <<p>> \o @, !.clock = @ + 1]

\* processNewAlert(), lines 1004-1053, for the converted alert p; the clock
\* that receivedAt is read from ticks when an alert is added
processNewAlert(c, p) ==
    IF \E i \in 1..Len(c.realTimeAlerts) :
          /\ c.realTimeAlerts[i].symbol = p.symbol
          /\ c.realTimeAlerts[i].alertTime = p.alertTime
    THEN c
    ELSE [c EXCEPT !.realTimeAlerts =
                      SubSeq(<<p>> \o @, 1, Min(Len(@) + 1, realTimeLimit)),
                   !.clock = @ + 1]

\* next of the subscription to messages$, lines 942-984, for the alert raw;
\* when convertToStockAlert() throws, the catch of processNewAlert() calls
\* it again and the handler ends with that exception
alertNext(w, raw) ==
    LET r == convertToStockAlert(raw, 1)
        p == [id |-> r.f.id, symbol |-> r.f.symbol, alertTime |-> r.f.alertTime,
              receivedAt |-> w.c.clock + 1]
        c == processNewAlert([w.c EXCEPT !.streamed = @ + 1], p)
    IN IF ~r.ok THEN w
       ELSE IF c.isPaidUser
       THEN [w EXCEPT !.c = [c EXCEPT !.paidAlerts = <<p.id.n>> \o @]]
       ELSE IF p.id.n \in SeqRange(c.freeAlerts) THEN [w EXCEPT !.c = c]
       ELSE [w EXCEPT !.c = [c EXCEPT !.freeAlerts = <<p.id.n>> \o @]]

\* setActiveTab(), lines 1100-1136
setActiveTab(w, tab) ==
    IF w.c.activeTab = tab THEN w
    ELSE LET w1 == [w EXCEPT !.c.activeTab = tab]
         IN CASE tab = "free" -> loadFreeAlerts(w1, FALSE)
              [] tab = "premium" -> loadPaidAlerts(w1, FALSE, FALSE)
              [] OTHER -> w1

\* onTableScroll(), lines 322-358, when the scroll is near the bottom and
\* the last load is old enough: the debounce timer is set
onTableScroll(w, tab) ==
    IF w.c.isLoading \/ ~w.c.hasMore \/ w.c.activeTab # tab THEN w
    ELSE [w EXCEPT !.c.scrollDebounceTimer = tab]

\* the callback of the debounce timer, lines 344-357
scrollDebounceCallback(w) ==
    LET tab == w.c.scrollDebounceTimer
        w1 == [w EXCEPT !.c.scrollDebounceTimer = "null"]
    IN IF tab = "free" THEN loadFreeAlerts(w1, TRUE)
       ELSE IF w1.c.isPaidUser THEN loadPaidAlerts(w1, TRUE, FALSE)
       ELSE w1

\* ngOnDestroy(), lines 1225-1235: this.subscriptions holds the handler of
\* authState$, the second subscription of every loadPaidAlerts() and the two
\* stream subscriptions; unsubscribing a request runs its finalize()
ngOnDestroy(w) ==
    LET second == {q \in w.c.pending : q.sub = "second"}
        w1 == [w EXCEPT !.c.phase = "destroyed", !.c.authSub = FALSE,
                        !.c.pending = @ \ second,
                        !.c.isLoading = IF second # {} THEN FALSE ELSE @]
    IN [w1 EXCEPT !.sv = disconnect([w1.sv EXCEPT !.subscribed = FALSE])]

TypeOK ==
    /\ socket \in 0..MaxSockets
    /\ socketSubscription \in 0..MaxSockets
    /\ conn \in [Sockets -> [ws : {"connecting", "open", "closing", "closed"},
                              bound : BOOLEAN, sub : BOOLEAN, queued : BOOLEAN]]
    /\ reconnectAttempts \in Int
    /\ isConnected \in BOOLEAN
    /\ connectionInProgress \in BOOLEAN
    /\ reconnectTimeout \in Nat
    /\ reconnectArmed \in BOOLEAN
    /\ activeSubscriptions \in Int
    /\ pingInterval \in BOOLEAN
    /\ pingTimeout \in {"null", "armed", "fired"}
    /\ anonTimers \in Seq(1..maxReconnectAttempts)
    /\ lastPongTime \in {"zero", "setup", "now", "frame"}
    /\ alertStream \in {"active", "errored", "completed"}
    /\ tickerStream \in {"active", "errored", "completed"}
    /\ Len(alertBuf) <= alertReplaySize
    /\ Len(tickerBuf) <= tickerReplaySize
    /\ subscribed \in BOOLEAN
    /\ calls \subseteq {"handleWebSocketError", "handlePong", "JSON.parse"}
    /\ answered \in BOOLEAN
    /\ seenAt \in [alerts : Nat, tickers : Nat]
    /\ alertsIn \in Nat
    /\ tickersIn \in Nat
    /\ fetch.phase \in {"idle", "inflight", "done"}
    /\ fetch.requests \in Nat
    /\ attached \subseteq Consumers
    /\ failures \in 0..MaxFailures

\* s without what the task sent, published and called
Quiet(s) == [s EXCEPT !.out = <<>>, !.pub = <<>>, !.calls = {}]

Task(op, id, cur, s) ==
    [op |-> op, id |-> id, cur |-> cur, noop |-> (Quiet(s) = Cur),
     frame |-> NoFrame, stale |-> FALSE]

\* The service after construction, lines 231-257
Fresh ==
    [socket |-> 0, socketSubscription |-> 0,
     conn |-> [id \in Sockets |-> DeadConn],
     reconnectAttempts |-> 0, isConnected |-> FALSE,
     connectionInProgress |-> FALSE, reconnectTimeout |-> 0,
     reconnectArmed |-> FALSE, activeSubscriptions |-> 0,
     pingInterval |-> FALSE, pingTimeout |-> "null", anonTimers |-> <<>>,
     lastPongTime |-> "zero", alertBuf |-> <<>>, tickerBuf |-> <<>>,
     alertStream |-> "active", tickerStream |-> "active",
     subscribed |-> FALSE, rcvAlerts |-> <<>>, rcvTickers |-> <<>>,
     out |-> <<>>, pub |-> <<>>, calls |-> {}, full |-> FALSE]

\* The variables hold the service state s
Start(s) ==
    /\ socket = s.socket
    /\ socketSubscription = s.socketSubscription
    /\ conn = s.conn
    /\ reconnectAttempts = s.reconnectAttempts
    /\ isConnected = s.isConnected
    /\ connectionInProgress = s.connectionInProgress
    /\ reconnectTimeout = s.reconnectTimeout
    /\ reconnectArmed = s.reconnectArmed
    /\ activeSubscriptions = s.activeSubscriptions
    /\ pingInterval = s.pingInterval
    /\ pingTimeout = s.pingTimeout
    /\ anonTimers = s.anonTimers
    /\ lastPongTime = s.lastPongTime
    /\ alertBuf = s.alertBuf
    /\ tickerBuf = s.tickerBuf
    /\ alertStream = s.alertStream
    /\ tickerStream = s.tickerStream
    /\ subscribed = s.subscribed
    /\ rcvAlerts = s.rcvAlerts
    /\ rcvTickers = s.rcvTickers
    /\ sent = s.out
    /\ published = s.pub
    /\ calls = s.calls

NoTask ==
    [op |-> "init", id |-> 0, cur |-> FALSE, noop |-> TRUE,
     frame |-> NoFrame, stale |-> FALSE]

Init ==
    /\ Start(Fresh)
    /\ answered = FALSE
    /\ seenAt = [alerts |-> 0, tickers |-> 0]
    /\ alertsIn = 0
    /\ tickersIn = 0
    /\ fetch = NoFetch
    /\ norm = NoNorm
    /\ auth = NoAuth
    /\ router = NoRoute
    /\ comp = NoComp
    /\ attached = {}
    /\ failures = 0
    /\ last = NoTask

\* A consumer calls connect() (StockAlerts.setupWebSocket, line 938)
ConnectCall(c) ==
    /\ c \notin attached
    /\ LET s == connect(Cur)
       IN /\ Install(s)
          /\ last' = Task("connect", 0, FALSE, s)
    /\ attached' = attached \cup {c}
    /\ UNCHANGED <<failures, answered, seenAt, alertsIn, tickersIn>>

\* A consumer calls disconnect() (StockAlerts.ngOnDestroy, line 1233)
DisconnectCall(c) ==
    /\ c \in attached
    /\ LET s == disconnect(Cur)
       IN /\ Install(s)
          /\ last' = Task("disconnect", 0, FALSE, s)
    /\ attached' = attached \ {c}
    /\ failures' = 0
    /\ UNCHANGED <<answered, seenAt, alertsIn, tickersIn>>

\* Any caller calls sendMessage()
SendMessageCall ==
    /\ LET s == sendMessage(Cur)
       IN /\ Install(s)
          /\ last' = Task("sendMessage", 0, FALSE, s)
    /\ UNCHANGED <<attached, failures, answered, seenAt, alertsIn, tickersIn>>

\* The transport of subject id opens
WsOpen(id) ==
    /\ conn[id].ws = "connecting"
    /\ LET s == onopen(Cur, id)
       IN /\ Install(s)
          /\ last' = Task("open", id, socket = id, s)
    /\ failures' = IF socket = id THEN 0 ELSE failures
    /\ UNCHANGED <<attached, answered, seenAt, alertsIn, tickersIn>>

Bump(id) == IF socket = id /\ failures < MaxFailures THEN failures + 1 ELSE failures

\* The transport of subject id closes without an error event; a transport
\* that never opened cannot close cleanly
WsClose(id, wasClean) ==
    /\ conn[id].ws # "closed"
    /\ wasClean => conn[id].ws # "connecting"
    /\ LET s == onclose(Cur, id, wasClean)
       IN /\ Install(s)
          /\ last' = Task("close", id, socket = id, s)
    /\ failures' = Bump(id)
    /\ UNCHANGED <<attached, answered, seenAt, alertsIn, tickersIn>>

\* The transport of subject id fails: the browser fires error, then close
WsFail(id) ==
    /\ conn[id].ws # "closed"
    /\ LET s == onclose(onerror(Cur, id), id, FALSE)
       IN /\ Install(s)
          /\ last' = Task("fail", id, socket = id, s)
    /\ failures' = Bump(id)
    /\ UNCHANGED <<attached, answered, seenAt, alertsIn, tickersIn>>

\* The frame f arrives on the transport of subject id
RecvFrame(id, f) ==
    /\ conn[id].ws \in {"open", "closing"}
    /\ LET s == onmessage(Cur, id, f)
       IN /\ Install(s)
          /\ last' = [Task("message", id, conn[id].sub, s) EXCEPT !.frame = f]
          /\ answered' = (answered \/ ("handlePong" \in s.calls
                                         /\ pingTimeout = "armed"))
    /\ UNCHANGED <<attached, failures, seenAt, alertsIn, tickersIn>>

TimerKinds == {"pingInterval", "pingTimeout", "reconnect", "attempt"}

\* Date.now() - lastPongTime > 15000 when the timeout fires, 10 s after a
\* ping that was sent at least 15 s after setupPing(); a pong's own
\* Date.now() may be less than 5 s older than the ping, a frame's timestamp
\* is whatever the server wrote
Stale(t) == IF t \in {"zero", "setup"} THEN {TRUE} ELSE BOOLEAN

\* A pending timer fires.  The 15 s interval does not tick while the 10 s
\* timeout armed by its previous tick is still pending.
TimerFire(kind) ==
    /\ CASE kind = "pingInterval" -> pingInterval /\ pingTimeout # "armed"
         [] kind = "pingTimeout" -> pingTimeout = "armed"
         [] kind = "reconnect" -> reconnectArmed
         [] kind = "attempt" -> anonTimers # <<>>
    /\ \E stale \in Stale(lastPongTime), i \in 1..Max1(Len(anonTimers)) :
         LET s == CASE kind = "pingInterval" -> pingIntervalCallback(Cur)
                    [] kind = "pingTimeout" -> pongTimeoutCallback(Cur, stale)
                    [] kind = "reconnect" -> reconnectTimerCallback(Cur)
                    [] kind = "attempt" -> attemptTimerCallback(Cur, i)
         IN /\ Install(s)
            /\ last' = [Task(kind, 0, FALSE, s) EXCEPT
                           !.stale = (kind = "pingTimeout" /\ stale)]
            /\ answered' = IF s.out # <<>> THEN FALSE ELSE answered
    /\ UNCHANGED <<attached, failures, seenAt, alertsIn, tickersIn>>

Next ==
    \/ \E c \in Consumers : ConnectCall(c)
    \/ \E c \in Consumers : DisconnectCall(c)
    \/ SendMessageCall
    \/ \E id \in Sockets : WsOpen(id)
    \/ \E id \in Sockets, wasClean \in BOOLEAN : WsClose(id, wasClean)
    \/ \E id \in Sockets : WsFail(id)
    \/ \E id \in Sockets, f \in ControlFrames : RecvFrame(id, f)
    \/ \E kind \in TimerKinds : TimerFire(kind)

Spec == Init /\ [][Next]_vars

----------------------------------------------------------------------------
\* Alert and ticker frames.  Both specifications start from the state the
\* service is in after connect() and the open event of its transport.

InitConnected ==
    /\ Start(onopen(connect(Fresh), 1))
    /\ answered = FALSE
    /\ seenAt = [alerts |-> 0, tickers |-> 0]
    /\ alertsIn = 0
    /\ tickersIn = 0
    /\ fetch = NoFetch
    /\ norm = NoNorm
    /\ auth = NoAuth
    /\ router = NoRoute
    /\ comp = NoComp
    /\ attached = {1}
    /\ failures = 0
    /\ last = NoTask

\* The alert or ticker frame f arrives on the transport of subject id
RecvData(id, f) ==
    /\ conn[id].ws = "open"
    /\ LET s == onmessage(Cur, id, f)
       IN /\ Install(s)
          /\ last' = [Task("message", id, conn[id].sub, s) EXCEPT !.frame = f]
    /\ alertsIn' = IF f.type = "alert" THEN alertsIn + 1 ELSE alertsIn
    /\ tickersIn' = IF f.type = "ticker" THEN tickersIn + 1 ELSE tickersIn
    /\ UNCHANGED <<attached, failures, answered, seenAt>>

\* A component subscribes to messages$ and tickerData$
SubscribeStreams ==
    /\ ~subscribed
    /\ LET s == subscribeStreams(Cur)
       IN /\ Install(s)
          /\ last' = Task("subscribe", 0, FALSE, s)
    /\ seenAt' = [alerts |-> alertsIn, tickers |-> tickersIn]
    /\ UNCHANGED <<attached, failures, answered, alertsIn, tickersIn>>

\* the next frames of every shape, while fewer than MaxArrivals arrived
ShapeFrames ==
    IF alertsIn + tickersIn < MaxArrivals
    THEN DataFrames("alert", alertsIn + 1) \cup DataFrames("ticker", tickersIn + 1)
    ELSE {}

NextFrames ==
    \/ \E id \in Sockets, f \in ShapeFrames : RecvData(id, f)
    \/ SubscribeStreams

SpecFrames == InitConnected /\ [][NextFrames]_vars

\* frames received since the subscriber attached
LiveIn == (alertsIn - seenAt.alerts) + (tickersIn - seenAt.tickers)

\* the next well-formed frame of each stream, up to MaxExtra frames beyond
\* the size of its replay buffer and MaxLive frames after the subscriber
\* attached
StreamFrames ==
    IF subscribed /\ LiveIn >= MaxLive THEN {}
    ELSE {Frame("object", "alert", "absent", "object", alertsIn + 1) :
             x \in {y \in {1} : alertsIn < alertReplaySize + MaxExtra}}
         \cup {Frame("object", "ticker", "absent", "object", tickersIn + 1) :
             x \in {y \in {1} : tickersIn < tickerReplaySize + MaxExtra}}

NextReplay ==
    \/ \E id \in Sockets, f \in StreamFrames : RecvData(id, f)
    \/ SubscribeStreams

SpecReplay == InitConnected /\ [][NextReplay]_vars

----------------------------------------------------------------------------
\* Properties

Live(id) == conn[id].ws \in {"connecting", "open"}
NoLiveTransport == \A id \in Sockets : ~Live(id)
ApiConnect(op) == op \in {"connect", "sendMessage"}
CurrentTransportLost == last.op \in {"close", "fail"} /\ last.cur

\* C1: at most one transport is open or connecting after every step, and a
\* connect() (direct or through sendMessage()) issued while a transport is
\* connecting or open changes nothing.
C1_SingleTransport ==
    [][/\ Cardinality({id \in Sockets : Live(id)}') <= 1
       /\ (ApiConnect(last'.op) /\ ~NoLiveTransport) => Cur' = Cur]_vars

C1_Witness ==
    /\ last.op = "connect"
    /\ last.noop
    /\ connectionInProgress
    /\ \E id \in Sockets : conn[id].ws = "connecting"

\* C2: while a consumer is attached and the retry cap is not exhausted, the
\* loss of the current transport leaves a reconnect scheduled or an attempt
\* started.
C2_ReconnectScheduled ==
    (attached # {} /\ CurrentTransportLost
        /\ reconnectAttempts < maxReconnectAttempts)
    => (reconnectArmed \/ anonTimers # <<>> \/ connectionInProgress)

\* C3: the active-subscriber count equals the number of consumers that have
\* connected and not yet disconnected.
C3_RefCount == activeSubscriptions = Cardinality(attached)

\* C4: a disconnect() by one consumer while another consumer is still
\* attached leaves an open transport open and its heartbeat running.
C4_SharedTeardown ==
    [][(/\ last'.op = "disconnect"
        /\ attached' # {}
        /\ socket # 0
        /\ conn[socket].ws = "open"
        /\ pingInterval)
       => (/\ socket' = socket
           /\ conn'[socket].ws = "open"
           /\ pingInterval')]_vars

BackoffSequence == <<1000, 2000, 4000, 8000, 16000>>

\* C5: with a consumer attached, the k-th consecutive failure (k = 1..5)
\* leaves the reconnect timer armed with delay 1000 * 2^(k-1) ms, and the
\* 6th leaves no timer armed.
C5_Backoff ==
    (attached # {} /\ CurrentTransportLost /\ failures >= 1)
    => IF failures <= 5
       THEN reconnectArmed /\ reconnectTimeout = BackoffSequence[failures]
       ELSE ~reconnectArmed /\ anonTimers = <<>>

\* C6: the reconnect attempt counter stays within 0..maxReconnectAttempts.
C6_AttemptsBounded ==
    reconnectAttempts >= 0 /\ reconnectAttempts <= maxReconnectAttempts

C6_Witness ==
    /\ CurrentTransportLost
    /\ attached # {}
    /\ reconnectAttempts = 0

\* C8: a connect() call made while the connection is Disconnected (no
\* transport connecting or open, no attempt in flight) opens a new transport.
C8_ConnectFromDisconnected ==
    [][(/\ last'.op = "connect"
        /\ ~isConnected
        /\ ~connectionInProgress
        /\ NoLiveTransport)
       => \E id \in Sockets : conn'[id].ws = "connecting"]_vars

\* C9: right after the transport's open event isConnected is true,
\* connectionInProgress is false, the attempt counter is 0 and the heartbeat
\* interval is armed.
C9_OpenIsConnected ==
    last.op = "open"
    => (isConnected /\ ~connectionInProgress /\ reconnectAttempts = 0
        /\ pingInterval)

C9_Witness == last.op = "open" /\ conn[last.id].ws = "open" /\ socket = last.id

Reset ==
    /\ socket = 0
    /\ ~isConnected
    /\ ~connectionInProgress
    /\ reconnectAttempts = 0
    /\ ~pingInterval
    /\ pingTimeout = "null"
    /\ reconnectTimeout = 0
    /\ ~reconnectArmed
    /\ anonTimers = <<>>

\* C10: every disconnect() ends in the fully reset state, and a disconnect()
\* issued in the reset state changes nothing.
C10_DisconnectResets ==
    [][last'.op = "disconnect" => (Reset' /\ (Reset => Cur' = Cur))]_vars

C10_Witness ==
    /\ last.op = "disconnect"
    /\ last.noop
    /\ \E id \in Sockets : conn[id].ws = "closing"

----------------------------------------------------------------------------
\* REST fetches: one fetch, from the subscription of a component to the
\* value or error its observer receives.

\* loadFreeAlerts() / loadPaidAlerts() subscribe to the observable of
\* getFreeAlerts(page, size) / getPaidAlerts(page, size): the request is sent
FetchCall(kind, page, size) ==
    /\ fetch.phase = "idle"
    /\ fetch' = [NoFetch EXCEPT !.kind = kind, !.page = page, !.size = size,
                                !.requests = 1, !.phase = "inflight"]
    /\ UNCHANGED <<streamVars, norm, auth, router, comp>>

\* The request is answered with r, the pipe runs, and either the request is
\* sent again or the observer receives a page or an error
HttpReply(r) ==
    /\ fetch.phase = "inflight"
    /\ LET x == IF fetch.kind = "free"
                THEN getFreeAlerts(r, fetch.requests - 1, fetch.page, fetch.size)
                ELSE getPaidAlerts(r, fetch.requests - 1, fetch.page, fetch.size)
           e == IF r.kind = "error" THEN fetch.errors + 1 ELSE fetch.errors
       IN fetch' = IF x.n = "retry"
                   THEN [fetch EXCEPT !.requests = @ + 1, !.errors = e,
                                      !.reply = r]
                   ELSE [fetch EXCEPT !.phase = "done", !.errors = e,
                                      !.reply = r, !.outcome = x,
                                      !.reaction = IF x.n = "error"
                                                   THEN paidErrorHandler(x.v)
                                                   ELSE "none"]
    /\ UNCHANGED <<streamVars, norm, auth, router, comp>>

NextFetch ==
    \/ \E kind \in {"free", "paid"}, page \in 0..MaxPage, size \in 1..MaxSize :
          FetchCall(kind, page, size)
    \/ \E r \in Responses(fetch.page) : HttpReply(r)

SpecFetch == Init /\ [][NextFetch]_vars

----------------------------------------------------------------------------
\* The normalizers: a payload is normalized, and the result is normalized
\* again.

InitNormalize ==
    /\ Start(Fresh)
    /\ answered = FALSE
    /\ seenAt = [alerts |-> 0, tickers |-> 0]
    /\ alertsIn = 0
    /\ tickersIn = 0
    /\ fetch = NoFetch
    /\ norm \in {NormOf(path, p) : path \in {"stream", "rest"}, p \in Payloads}
    /\ auth = NoAuth
    /\ router = NoRoute
    /\ comp = NoComp
    /\ attached = {}
    /\ failures = 0
    /\ last = NoTask

\* the payload is handed to the normalizer of its path
NormalizeRaw ==
    /\ norm.passes = 0
    /\ norm' = [norm EXCEPT !.passes = 1,
                            !.once = normalize(norm.path, norm.raw, 1)]
    /\ UNCHANGED <<streamVars, fetch, auth, router, comp>>

\* the alert it returned is handed to the same normalizer
NormalizeAgain ==
    /\ norm.passes = 1
    /\ norm.once.ok
    /\ norm' = [norm EXCEPT !.passes = 2,
                            !.twice = normalize(norm.path,
                                          Payload0("object", norm.once.f), 2)]
    /\ UNCHANGED <<streamVars, fetch, auth, router, comp>>

NextNormalize == NormalizeRaw \/ NormalizeAgain

SpecNormalize == InitNormalize /\ [][NextNormalize]_vars

----------------------------------------------------------------------------
\* Teardown and replay: the component that holds the connection disconnects
\* and connects again while frames arrive and a subscriber attaches.

NextTeardown ==
    \/ \E id \in Sockets, f \in StreamFrames : RecvData(id, f)
    \/ DisconnectCall(1)
    \/ ConnectCall(1)
    \/ \E id \in Sockets : WsOpen(id)
    \/ SubscribeStreams

SpecTeardown == InitConnected /\ [][NextTeardown]_vars

----------------------------------------------------------------------------
\* Login, logout and navigation

InitAuth ==
    /\ Start(Fresh)
    /\ answered = FALSE
    /\ seenAt = [alerts |-> 0, tickers |-> 0]
    /\ alertsIn = 0
    /\ tickersIn = 0
    /\ fetch = NoFetch
    /\ norm = NoNorm
    /\ auth \in {AuthService0(item) : item \in StoredItems}
    /\ router = NoRoute
    /\ comp = NoComp
    /\ attached = {}
    /\ failures = 0
    /\ last = NoTask

\* The user opens a URL, or a component navigates without touching the
\* session (StockAlerts.onLogin, Subscription.skipForNow)
NavigateTo(path) ==
    /\ router' = navigate(router, auth, path)
    /\ UNCHANGED <<streamVars, fetch, norm, auth, comp>>

\* LoginComponent.onLogin(), login.ts lines 24-39: the simulated Google login
\* draws the address e, then the router goes to /subscription
LoginSubmit(e) ==
    /\ router.url = "/login"
    /\ auth' = login(auth, e)
    /\ router' = navigate(router, auth', "/subscription")
    /\ UNCHANGED <<streamVars, fetch, norm, comp>>

\* Subscription.confirmSelection(), subscription.ts lines 79-94
ConfirmSelection(premium) ==
    /\ router.url = "/subscription"
    /\ auth.currentUser.t = "user"
    /\ auth' = updateSubscription(auth, premium)
    /\ router' = navigate(router, auth', "/alerts")
    /\ UNCHANGED <<streamVars, fetch, norm, comp>>

\* StockAlerts.onLogout(), stock-alerts.ts lines 1138-1141
OnLogout ==
    /\ router.url = "/alerts"
    /\ auth' = logout(auth)
    /\ router' = navigate(router, auth', "/login")
    /\ UNCHANGED <<streamVars, fetch, norm, comp>>

NextAuth ==
    \/ \E path \in Paths : NavigateTo(path)
    \/ \E e \in Emails : LoginSubmit(e)
    \/ \E b \in BOOLEAN : ConfirmSelection(b)
    \/ OnLogout

SpecAuth == InitAuth /\ [][NextAuth]_vars

----------------------------------------------------------------------------
\* The StockAlerts component of a logged-in user, from its creation by the
\* route /alerts to its destruction

World == [c |-> comp, a |-> auth, r |-> router, sv |-> Cur]

\* a handler of the component leaves the world w
Apply(w, did) ==
    /\ ~w.c.over
    /\ InstallStream(w.sv)
    /\ comp' = [w.c EXCEPT !.did = did]
    /\ auth' = w.a
    /\ router' = w.r
    /\ attached' = IF w.sv.socket # 0 THEN {1} ELSE {}
    /\ last' = Task("component", 0, FALSE, w.sv)
    /\ UNCHANGED <<fetch, norm, failures, answered, seenAt, alertsIn, tickersIn>>

\* the route /alerts has created the component for a user read from
\* localStorage, subscribed or not
InitUser(subscriptions) ==
    /\ Start(Fresh)
    /\ answered = FALSE
    /\ seenAt = [alerts |-> 0, tickers |-> 0]
    /\ alertsIn = 0
    /\ tickersIn = 0
    /\ fetch = NoFetch
    /\ norm = NoNorm
    /\ auth \in {AuthService0(Item("user", User(1, b, FALSE))) : b \in subscriptions}
    /\ router = navigate(NoRoute, auth, "/alerts")
    /\ comp = StockAlerts0(auth)
    /\ attached = {}
    /\ failures = 0
    /\ last = NoTask

InitComponent == InitUser(BOOLEAN)

NgOnInit ==
    /\ comp.phase = "constructed"
    /\ Apply(ngOnInit(World), Did("ngOnInit", NoReq, 0))

\* the lengths of a page: empty, short, or full
PageLens == {0, 1, pageSize}

\* the id of the first alert of page p; a newer alert may have pushed the
\* last alert of the page before onto it
Firsts(p) == IF p = 0 THEN {1} ELSE {p * pageSize, p * pageSize + 1}

\* what the server, or the network, answers to the last request the service
\* makes for page p: a failure, an object that is no page, a bare array or
\* a page
PageResponses(p) ==
    {Val("error", st, "server", 0, 0, 0, FALSE, 0) : st \in {401, 403, 500}}
    \cup {Val("other", 200, "server", 0, 0, 0, FALSE, 0)}
    \cup {Val("array", 200, "server", n, 0, 0, FALSE, 0) : n \in PageLens}
    \cup {Val("page", 200, "server", n, p, pageSize, l, n) :
             n \in PageLens, l \in BOOLEAN}

\* The request q ends: the service hands its observer the page or the error
\* its pipe makes of the answer r to its last attempt, and finalize() runs
Reply(q, r, first) ==
    /\ q \in comp.pending
    /\ LET x == IF q.kind = "free"
                THEN getFreeAlerts(r, freeRetryCount, q.page, pageSize)
                ELSE getPaidAlerts(r, paidRetryCount, q.page, pageSize)
           w == [World EXCEPT !.c.pending = @ \ {q}]
       IN Apply(observe(w, q, x, first),
                Did("reply", q, IF x.n = "error" THEN x.v.status ELSE 200))

\* messages$ hands the alert number n to the component
AlertEmitted(n) ==
    /\ subscribed
    /\ Apply([alertNext(World, AlertNo(n)) EXCEPT
                 !.c.fresh = IF n > @ THEN n ELSE @],
             Did("alert", NoReq, 0))

SetActiveTab(tab) ==
    /\ comp.phase = "ready"
    /\ comp.activeTab # tab
    /\ Apply(setActiveTab(World, tab), Did("setActiveTab", NoReq, 0))

OnTableScroll(tab) ==
    /\ comp.phase = "ready"
    /\ onTableScroll(World, tab) # World
    /\ Apply(onTableScroll(World, tab), Did("onTableScroll", NoReq, 0))

ScrollDebounce ==
    /\ comp.scrollDebounceTimer # "null"
    /\ Apply(scrollDebounceCallback(World), Did("scrollDebounce", NoReq, 0))

\* the router has left /alerts: the component is destroyed
NgOnDestroy ==
    /\ comp.phase = "ready"
    /\ router.url # "/alerts"
    /\ Apply(ngOnDestroy(World), Did("ngOnDestroy", NoReq, 0))

\* the alerts the stream may emit next while pages are loaded: the first
\* alert of page 0 or of page 1
PageAlerts ==
    IF comp.streamed < MaxStreamed THEN {1, pageSize + 1} ELSE {}

\* the component of a free or a paid user on the tab it opened with
NextComponent ==
    \/ NgOnInit
    \/ \E q \in comp.pending :
          \E r \in PageResponses(q.page), first \in Firsts(q.page) :
             Reply(q, r, first)
    \/ \E n \in PageAlerts : AlertEmitted(n)
    \/ \E tab \in {"free", "premium"} : OnTableScroll(tab)
    \/ ScrollDebounce
    \/ NgOnDestroy

SpecComponent == InitComponent /\ [][NextComponent]_vars

\* the component of a free user who also changes tabs; no paid request is
\* made, so that the session lasts
InitTabs == InitUser({FALSE})

NextTabs ==
    \/ NgOnInit
    \/ \E q \in comp.pending :
          \E r \in PageResponses(q.page), first \in Firsts(q.page) :
             Reply(q, r, first)
    \/ \E n \in PageAlerts : AlertEmitted(n)
    \/ \E tab \in {"realtime", "free", "premium"} : SetActiveTab(tab)
    \/ \E tab \in {"free", "premium"} : OnTableScroll(tab)
    \/ ScrollDebounce

SpecTabs == InitTabs /\ [][NextTabs]_vars

\* the alerts the stream may emit next when only the stream is followed: a
\* new one, the latest once more, or the first once more; MaxExtra alerts
\* arrive beyond the length realTimeAlerts is cut to
RealtimeAlerts ==
    IF comp.streamed < realTimeLimit + MaxExtra
    THEN {comp.fresh + 1} \cup ({comp.fresh, 1} \ {0})
    ELSE {}

NextRealtime ==
    \/ NgOnInit
    \/ \E n \in RealtimeAlerts : AlertEmitted(n)

SpecRealtime == InitTabs /\ [][NextRealtime]_vars


----------------------------------------------------------------------------
\* Heartbeat and frames

TransportEvents == {"open", "close", "fail", "message"}

\* the connection state held by the service
ConnState ==
    <<socket, socketSubscription, isConnected, connectionInProgress,
      reconnectAttempts, reconnectArmed, pingInterval, pingTimeout, anonTimers>>

Delivered == last.op = "message" /\ last.cur

\* C11: once disconnect() has torn a connection down, no timer callback runs
\* before the next connect(), and an event of a transport that is no longer
\* the service's current one leaves the connection state as it was.
C11_QuietAfterDisconnect ==
    [][/\ (last'.op \in TimerKinds) => socket # 0
       /\ (last'.op \in TransportEvents /\ last'.id # socket)
             => ConnState' = ConnState]_vars

\* C12: when the pong timeout fires and the last pong is older than the
\* staleness threshold, the error path runs and the service is no longer
\* connected.
C12_StaleDisconnects ==
    (last.op = "pingTimeout" /\ last.stale)
    => ("handleWebSocketError" \in calls /\ ~isConnected)

\* C13: a pong handled while the timeout of the last ping is pending clears
\* that timeout, and the timeout callback never runs for an answered ping.
C13_PongClearsTimeout ==
    /\ answered => pingTimeout # "armed"
    /\ last.op = "pingTimeout" => ~answered

C13_Witness ==
    /\ Delivered
    /\ last.frame.type = "pong"
    /\ answered
    /\ pingTimeout = "null"
    /\ isConnected

C15_LegacyToken ==
    (Delivered /\ last.frame.form = "legacy")
    => /\ "handlePong" \in calls
       /\ lastPongTime = "now"
       /\ pingTimeout = "null"
       /\ "JSON.parse" \notin calls
       /\ sent = <<>>
       /\ published = <<>>

C15_Witness ==
    /\ Delivered
    /\ last.frame.form = "legacy"
    /\ answered
    /\ pingInterval

\* frames that are malformed JSON or carry an unknown or no type
JunkFrames ==
    {f \in ControlFrames :
        \/ f.form \in {"malformed", "jsonFalsy", "jsonScalar", "binary"}
        \/ f.form = "object" /\ f.type \in {"other", "none"}}

\* C16: a frame that is malformed JSON or has an unknown or missing type
\* reaches no error path, sends and publishes nothing, and leaves the
\* service state (connection state, timers, attempt counter) unchanged.
C16_JunkIgnored ==
    [][(last'.op = "message" /\ last'.frame \in JunkFrames)
         => /\ Cur' = Cur
            /\ "handleWebSocketError" \notin calls'
            /\ sent' = <<>>
            /\ published' = <<>>]_vars

C16_Witness ==
    /\ Delivered
    /\ last.frame.form = "malformed"
    /\ "JSON.parse" \in calls
    /\ pingTimeout = "armed"
    /\ isConnected

\* C17: every delivered frame of type 'alert' or 'ticker' publishes exactly
\* one value, made from its data member when it has one and from the frame
\* itself otherwise.
C17_OnePerFrame ==
    (Delivered /\ last.frame.type \in {"alert", "ticker"})
    => published = <<Payload(last.frame.type, last.frame)>>

Increasing(seq) == \A i, j \in 1..Len(seq) : i < j => seq[i].id < seq[j].id
Range(seq) == {seq[i] : i \in 1..Len(seq)}

\* C18: alerts are buffered and handed to the subscriber in the order their
\* frames arrived, and the subscriber misses no alert published after it
\* attached.
C18_ArrivalOrder ==
    /\ Increasing(alertBuf)
    /\ subscribed =>
         /\ Increasing(rcvAlerts)
         /\ \A v \in Range(alertBuf) : v.id > seenAt.alerts => v \in Range(rcvAlerts)

C18_Witness ==
    /\ subscribed
    /\ seenAt.alerts = 0
    /\ Len(rcvAlerts) >= 2
    /\ Len(rcvAlerts) < alertsIn

Ids(seq) == [i \in 1..Len(seq) |-> seq[i].id]
Monus(a, b) == IF a > b THEN a - b ELSE 0

\* what a subscriber that attached after n0 publications has received once
\* n values are published: the last min(n0, size) before it attached, then
\* every later one
Expected(n0, n, size) ==
    [i \in 1..(n - Monus(n0, size)) |-> Monus(n0, size) + i]

\* C19: a subscriber attaching after n alerts first receives the most recent
\* min(n, 50) of them in publication order and then the live ones; the same
\* for the ticker stream with 10.
C19_Replay ==
    subscribed =>
      /\ Ids(rcvAlerts) = Expected(seenAt.alerts, alertsIn, alertReplaySize)
      /\ Ids(rcvTickers) = Expected(seenAt.tickers, tickersIn, tickerReplaySize)

C19_Witness ==
    /\ subscribed
    /\ seenAt.alerts > alertReplaySize
    /\ seenAt.tickers > tickerReplaySize
    /\ alertsIn > seenAt.alerts
    /\ Len(rcvAlerts) = alertReplaySize + 1

\* C20: whatever happens to the transport, the alert stream and the ticker
\* stream neither error nor complete.
C20_StreamsStayActive ==
    alertStream = "active" /\ tickerStream = "active"

C20_Witness ==
    /\ last.op = "fail"
    /\ last.cur
    /\ "handleWebSocketError" \in calls
    /\ alertStream = "active"
    /\ tickerStream = "active"

----------------------------------------------------------------------------
\* REST fetches

FetchDone(kind) == fetch.kind = kind /\ fetch.phase = "done"

\* C21: getFreeAlerts never hands an error to its observer; when the request
\* fails or the body is empty the observer receives one page with an empty
\* content, totalElements 0, last true and number equal to the page asked
\* for.
C21_FreeNeverFails ==
    FetchDone("free") =>
      /\ fetch.outcome.n = "next"
      /\ fetch.reply.kind \in {"error", "null"} =>
            /\ fetch.outcome.v.kind = "page"
            /\ fetch.outcome.v.from = "none"
            /\ fetch.outcome.v.len = 0
            /\ fetch.outcome.v.total = 0
            /\ fetch.outcome.v.last
            /\ fetch.outcome.v.number = fetch.page

C21_Witness ==
    /\ FetchDone("free")
    /\ fetch.reply.kind = "error"
    /\ fetch.reply.status = 500
    /\ fetch.outcome.v = emptyResponse(fetch.page, fetch.size)
    /\ fetch.page > 0

\* C22: when every request fails, getFreeAlerts has sent three requests (the
\* first and two retries) by the time it emits the empty page.
C22_FreeRetriesTwice ==
    (FetchDone("free") /\ fetch.errors = fetch.requests)
    => (fetch.requests = 3 /\ fetch.outcome.v.len = 0)

\* C23: when the last request of getPaidAlerts fails, the observer receives
\* that error, not a page, with the HTTP status of the failure, and the
\* caller tells 401/403, 0 and 404 apart.
C23_PaidPropagates ==
    (FetchDone("paid") /\ fetch.reply.kind = "error")
    => /\ fetch.outcome = Note("error", fetch.reply)
       /\ fetch.reaction = paidErrorHandler(fetch.reply)
       /\ fetch.reaction = "logout" <=> fetch.reply.status \in {401, 403}
       /\ fetch.reaction = "offline" <=> fetch.reply.status = 0
       /\ fetch.reaction = "notFound" <=> fetch.reply.status = 404

C23_Witness ==
    /\ FetchDone("paid")
    /\ fetch.outcome.n = "error"
    /\ fetch.outcome.v.status = 401
    /\ fetch.reaction = "logout"
    /\ fetch.requests = 3

\* C24 as claimed: for a bare-array response getPaidAlerts returns a page
\* whose content is that array, whose number is the page asked for and
\* whose last flag is true.
C24_BareArrayIsLast ==
    (FetchDone("paid") /\ fetch.reply.kind = "array")
    => /\ fetch.outcome.n = "next"
       /\ fetch.outcome.v.from = "array"
       /\ fetch.outcome.v.len = fetch.reply.len
       /\ fetch.outcome.v.number = fetch.page
       /\ fetch.outcome.v.last

\* C24 as amended: for a bare-array response getPaidAlerts returns a page
\* whose content is that array and whose number is the page asked for; its
\* last flag is true exactly when the array is shorter than the page size
\* asked for.
C24_BareArrayPage ==
    (FetchDone("paid") /\ fetch.reply.kind = "array")
    => /\ fetch.outcome.n = "next"
       /\ fetch.outcome.v.from = "array"
       /\ fetch.outcome.v.len = fetch.reply.len
       /\ fetch.outcome.v.number = fetch.page
       /\ fetch.outcome.v.last <=> (fetch.reply.len < fetch.size)

C24_Witness ==
    /\ FetchDone("paid")
    /\ fetch.reply.kind = "array"
    /\ fetch.reply.len = 1
    /\ fetch.size = 2
    /\ fetch.page = 1
    /\ fetch.outcome.v.last

----------------------------------------------------------------------------
\* The normalizers

Normalized == norm.passes >= 1 /\ norm.once.ok

IsNumber(v) == v.t \in {"num", "now"}
IsString(v) == v.t \in {"str", "numstr", "iso", "isoNow"}

\* C25: whatever fields of the payload are absent or unparseable, the Alert
\* has a number in every numeric field and a non-null string in every
\* string field; only week52High holds a number or null.
C25_FieldsDefaulted ==
    Normalized =>
      /\ \A k \in {"id", "ltp", "closePrice", "createdAt"} : IsNumber(norm.once.f[k])
      /\ \A k \in {"symbol", "redisAlertKey"} : IsString(norm.once.f[k])
      /\ IsNumber(norm.once.f.week52High) \/ norm.once.f.week52High = Null
      /\ norm.once.f.alertTime.t \notin {"undef", "null", "nan"}

\* C26: normalizing the Alert a normalizer returned gives an Alert equal to
\* it in every field.
C26_Idempotent ==
    (norm.passes = 2) => (norm.twice.ok /\ norm.twice.f = norm.once.f)

\* C27: an alertTime of 10 digits (epoch seconds) is multiplied by 1000 in
\* the Alert, and one of 13 digits (epoch milliseconds) is left unchanged.
C27_SecondsToMillis ==
    (Normalized /\ norm.raw.f.alertTime.t = "num")
    => /\ Digits(norm.raw.f.alertTime) = 10 =>
            norm.once.f.alertTime
              = Num(norm.raw.f.alertTime.n, norm.raw.f.alertTime.e + 3)
       /\ Digits(norm.raw.f.alertTime) = 13 =>
            norm.once.f.alertTime = norm.raw.f.alertTime

\* C28: the normalizer returns an Alert for every payload and never throws.
C28_Total == norm.passes >= 1 => norm.once.ok

\* C29: the symbol of every Alert a normalizer returns, on the stream path
\* and on the REST path, is an upper-case string.
C29_SymbolUpper ==
    Normalized =>
      /\ norm.once.f.symbol.t = "str"
      /\ toUpperCase(norm.once.f.symbol) = norm.once.f.symbol

----------------------------------------------------------------------------

\* C30: a close event that arrives late for a transport that was replaced
\* does not touch the current connection: whenever the current transport
\* is open, the service is connected and its heartbeat interval runs.
C30_OpenStaysConnected ==
    (socket # 0 /\ conn[socket].ws = "open" /\ conn[socket].bound)
    => (isConnected /\ pingInterval)

----------------------------------------------------------------------------
\* The paid pipe, once more

\* C36: when getPaidAlerts hands an error to its observer, the request was
\* sent exactly three times (the first and two retries) and each of them
\* failed, whatever the status of the failures, 401 and 403 included.
C36_PaidThreeRequests ==
    (FetchDone("paid") /\ fetch.outcome.n = "error")
    => (fetch.requests = paidRetryCount + 1 /\ fetch.errors = fetch.requests)

C36_Witness ==
    /\ FetchDone("paid")
    /\ fetch.outcome.n = "error"
    /\ fetch.outcome.v.status = 403
    /\ fetch.requests = 3
    /\ fetch.errors = 3

----------------------------------------------------------------------------
\* Route guards

LoggedIn == auth.currentUser.t = "user"

\* C39: in every authentication state exactly one of the two guards admits:
\* authGuard admits when a user is logged in and redirects to /login
\* otherwise, publicGuard admits when no user is logged in and redirects to
\* /alerts otherwise; after logout() only publicGuard admits, after login()
\* only authGuard.
C39_OneGuardAdmits ==
    /\ authGuard(auth) = (IF LoggedIn THEN "true" ELSE "/login")
    /\ publicGuard(auth) = (IF LoggedIn THEN "/alerts" ELSE "true")
    /\ (authGuard(auth) = "true") # (publicGuard(auth) = "true")
    /\ auth.op = "logout"
         => (~LoggedIn /\ publicGuard(auth) = "true" /\ authGuard(auth) # "true")
    /\ auth.op = "login"
         => (LoggedIn /\ authGuard(auth) = "true" /\ publicGuard(auth) # "true")
    /\ router.url = "/login" => ~LoggedIn
    /\ router.url \in {"/alerts", "/subscription"} => LoggedIn

\* a logout from /alerts has landed on /login, which a login had left
C39_Witness ==
    /\ auth.op = "logout"
    /\ router.url = "/login"
    /\ router.verdict = "true"
    /\ \E e \in Emails : auth.mockUsers[e] # "none"

----------------------------------------------------------------------------
\* Replay across a disconnect

\* C37: disconnect() leaves both replay buffers as they are, and a
\* subscriber that attaches after a disconnect() and a later connect() is
\* replayed the alerts and ticker snapshots published before the
\* disconnect (the most recent 50 and 10 of them).
C37_ReplaySurvivesDisconnect ==
    /\ [][last'.op = "disconnect"
            => (alertBuf' = alertBuf /\ tickerBuf' = tickerBuf)]_vars
    /\ [](subscribed =>
            /\ Ids(rcvAlerts) = Expected(seenAt.alerts, alertsIn, alertReplaySize)
            /\ Ids(rcvTickers) = Expected(seenAt.tickers, tickersIn, tickerReplaySize))

\* the subscriber attached to the second connection before its transport
\* opened: all it was replayed had arrived on the first
C37_Witness ==
    /\ last.op = "subscribe"
    /\ socket = 2
    /\ conn[2].ws = "connecting"
    /\ Len(rcvAlerts) = alertReplaySize
    /\ Len(rcvTickers) = tickerReplaySize
    /\ alertsIn > alertReplaySize

----------------------------------------------------------------------------
\* The StockAlerts component

NoDup(seq) == \A i, j \in 1..Len(seq) : seq[i] = seq[j] => i = j

PaidPending == {q \in comp.pending : q.kind = "paid"}

\* C31: once ngOnInit() has run and the initial fetch of the alerts has
\* ended, with a page or with an error, connect() has been called and the
\* alert and ticker subscriptions are attached, for a free and for a paid
\* user.
C31_StreamsAttached ==
    (comp.phase = "ready" /\ comp.init # "pending") => (socket # 0 /\ subscribed)

\* C32: at most one paid-alert request of the component is in flight, and
\* isLoading is true for as long as it is.
C32_OnePaidRequest ==
    /\ Cardinality(PaidPending) <= 1
    /\ PaidPending # {} => comp.isLoading

\* the observer of a load-more request for paid alerts has run
PaidLoadMoreDone ==
    /\ comp'.did.op = "reply"
    /\ \E q \in comp.pending \ comp'.pending : q.kind = "paid" /\ q.loadMore

\* C33: the response to a load-more of paid alerts adds no id to paidAlerts
\* that the list already holds: a list without duplicates stays so.
C33_PaidLoadMoreDedups ==
    [][(PaidLoadMoreDone /\ NoDup(comp.paidAlerts)) => NoDup(comp'.paidAlerts)]_vars

\* C34: freeAlerts never holds two alerts with the same id, whatever the
\* order of initial loads, load-more responses and streamed alerts (the ids
\* of one server page are distinct).
C34_FreeAlertsDistinct == NoDup(comp.freeAlerts)

\* a streamed alert of page 1 was put in front of page 0, and the load-more
\* response for page 1 added the other alerts of that page
C34_Witness ==
    /\ comp.did.op = "reply"
    /\ Len(comp.freeAlerts) = 2 * pageSize
    /\ comp.freeAlerts[1] = pageSize + 1
    /\ comp.currentPage = 1

\* C35: when a paid-alert fetch fails with status 401 or 403 the session is
\* invalidated (no current user, no stored user, the router at /login); when
\* it fails with another status the session is left as it is.
C35_SessionInvalidated ==
    /\ []((comp.did.op = "reply" /\ comp.did.status \in {401, 403})
            => /\ auth.currentUser = NullUser
               /\ auth.stored.t = "absent"
               /\ router.url = "/login")
    /\ [][(comp'.did.op = "reply" /\ comp'.did.status \notin {401, 403})
            => auth' = auth]_vars

\* C38: realTimeAlerts holds at most 100 alerts, the one received last
\* first, and no two of them have the same symbol and alertTime.
C38_RealTimeAlerts ==
    LET list == comp.realTimeAlerts
    IN /\ Len(list) <= realTimeLimit
       /\ \A i, j \in 1..Len(list) :
            /\ i < j => list[i].receivedAt > list[j].receivedAt
            /\ (list[i].symbol = list[j].symbol
                /\ list[i].alertTime = list[j].alertTime) => i = j

\* the first alert had left the full list and arrived again
C38_Witness ==
    /\ Len(comp.realTimeAlerts) = realTimeLimit
    /\ comp.realTimeAlerts[1].id = Num(1, 0)
    /\ comp.fresh > realTimeLimit
    /\ comp.streamed > comp.fresh

============================================================================
